---- MODULE Spec2Model ----
(***************************************************************************)
(* Model of the session-scoped, checkpointed agent workflow of             *)
(* tutor-app-api: the SQLite checkpoint store with its in-process cache    *)
(* (sqlite-memory.service.js) and the four-stage turn pipeline             *)
(* (agent-flow.service.js).                                                *)
(***************************************************************************)
EXTENDS Integers, Sequences, FiniteSets, TLC

VARIABLES
    db,             \* SQLiteAgentMemory.db: "null", "open", or "uninitialized"
                    \* (a handle whose initialize() did not complete)
    agent_memories, \* rows of table agent_memories, in rowid order
    agent_messages, \* rows of table agent_messages, in rowid order
    agent_schema,   \* rows of table agent_schema, in rowid order
    connections,    \* number of open connections to the database file
    stateCache,     \* SQLiteAgentMemory.stateCache: cache key -> [obj, val]
    workflows,      \* AgentFlowService.workflows: session id -> workflow object
    now,            \* the value Date.now() returned last
    rnd,            \* number of Math.random() suffixes drawn so far
    nextObj,        \* number of objects created (loaded states, workflows)
    turn,           \* the running (or last finished) executeAgentFlow call
    other,          \* an executeAgentFlow call suspended at an await meanwhile
    turnNo,         \* number of turns started
    envEvents,      \* number of adverse environment events so far
    sessMsgs,       \* per session: state.messages at the latest point of its turns
    sessHist,       \* per session: what its first turn did (history for the claims)
    lastCkpt,       \* per session: the state of its most recently created checkpoint
    call,           \* the last direct call of the store API and what it returned
    calls,          \* number of direct calls of the store API
    tasks,          \* callers of getOrCreateWorkflow in flight at the same time
    defaultSchema,  \* StateManagerService.defaultSchema: key -> default
    sm,             \* the last call of the state manager and what it returned
    ops             \* store operations in flight together, and the initialize() they await

storeVars == <<db, connections, agent_memories, agent_messages, agent_schema, stateCache>>
engineVars == <<workflows, turn, other, turnNo, sessMsgs, sessHist, tasks, defaultSchema, sm, ops>>
envVars == <<now, rnd, nextObj, envEvents>>
histVars == <<lastCkpt, call, calls>>
vars == <<storeVars, engineVars, envVars, histVars>>

----------------------------------------------------------------------------
(* Bounds of the model *)

\* number of turns (executeAgentFlow calls) of one run
MaxTurns == 2
\* number of adverse environment events of one run: a failing store call, a
\* failing generator call, a Date.now() that returns the value it returned last,
\* a row inserted in the same second as the row before it
MaxEnvEvents == 1
\* number of direct store API calls of one run of the store specification
MaxCalls == 3

Sessions == {"s1", "s2"}

----------------------------------------------------------------------------
(* JavaScript values *)

\* a property that the object does not have
Absent == "<absent>"
\* a property that is present and holds undefined
Undefined == "<undefined>"
\* a number given where a string is expected (an unvalidated request field)
NumberSubject == "<number 42>"
\* null, given for a checkpoint id
Null == "<null>"
\* null, returned by loadCheckpoint in place of a state object
NullState == [null |-> TRUE]

\* what reading property value v yields: a missing property reads as undefined
Read(v) == IF v = Absent THEN Undefined ELSE v

\* a || b for the values of the model
OrElse(a, b) == IF Read(a) = Undefined THEN b ELSE a

IsPrefix(s, t) == Len(s) <= Len(t) /\ SubSeq(t, 1, Len(s)) = s

----------------------------------------------------------------------------
(* State objects and their JSON form *)

\* a state object without any property but messages
EmptyState ==
    [subject |-> Absent, name |-> Absent, messages |-> <<>>, sessionId |-> Absent,
     created |-> Absent, systemPrompt |-> Absent, response |-> Absent,
     checkpointId |-> Absent]

\* JSON.stringify leaves out a property that holds undefined
JsonValue(v) == IF v = Undefined THEN Absent ELSE v

JsonMessage(m) ==
    [role |-> JsonValue(m.role), content |-> JsonValue(m.content), id |-> JsonValue(m.id)]

\* JSON.stringify(state): the text is modelled by the object that JSON.parse
\* builds from it
Stringify(s) ==
    [subject |-> JsonValue(s.subject), name |-> JsonValue(s.name),
     messages |-> [i \in 1..Len(s.messages) |-> JsonMessage(s.messages[i])],
     sessionId |-> JsonValue(s.sessionId), created |-> JsonValue(s.created),
     systemPrompt |-> JsonValue(s.systemPrompt), response |-> JsonValue(s.response),
     checkpointId |-> JsonValue(s.checkpointId)]

Parse(text) == text

----------------------------------------------------------------------------
(* SQLiteAgentMemory *)

Max(S) == CHOOSE x \in S : \A y \in S : y <= x

RowsOf(rows, sid) == {i \in 1..Len(rows) : rows[i].session_id = sid}

\* the value of CURRENT_TIMESTAMP (one-second resolution) of the last insert
LastSecond(rows, col) == IF rows = <<>> THEN 0 ELSE Max({rows[i][col] : i \in 1..Len(rows)})

CanEvent == envEvents < MaxEnvEvents

\* CURRENT_TIMESTAMP of a new row: a later second, or the second of the row before
Seconds(rows, col) ==
    {LastSecond(rows, col) + 1} \cup (IF CanEvent /\ rows # <<>> THEN {LastSecond(rows, col)} ELSE {})

\* Date.now(): a later millisecond, or the one returned last
ClockReads == {now + 1} \cup (IF CanEvent THEN {now} ELSE {})

\* a plain INSERT without the UNIQUE constraint: the row of the same key stays
InsertMemory(rows, row) == Append(rows, row)

\* INSERT OR REPLACE under UNIQUE(session_id, checkpoint_id): the row with the
\* same key is deleted and the new row gets a new rowid
ReplaceMemory(rows, row) ==
    LET Other(r) == ~(r.session_id = row.session_id /\ r.checkpoint_id = row.checkpoint_id)
    IN Append(SelectSeq(rows, Other), row)

\* INSERT OR REPLACE under UNIQUE(session_id, message_id)
ReplaceMessage(rows, row) ==
    LET Other(r) == ~(r.session_id = row.session_id /\ r.message_id = row.message_id)
    IN Append(SelectSeq(rows, Other), row)

\* the rows of _initializeDefaultSchema: key, default_value, type
SchemaItems ==
    <<[key |-> "subject", default_value |-> "test-subject", type |-> "string"],
      [key |-> "name", default_value |-> "Erica", type |-> "string"],
      [key |-> "messages", default_value |-> "[]", type |-> "array"]>>

\* INSERT OR IGNORE INTO agent_schema under UNIQUE(key): a row of the key stays
\* as it is, otherwise the item becomes a row with the next rowid
InsertOrIgnore(rows, item) ==
    IF \E i \in DOMAIN rows : rows[i].key = item.key THEN rows
    ELSE Append(rows, [id |-> IF rows = <<>> THEN 1
                              ELSE Max({rows[i].id : i \in DOMAIN rows}) + 1,
                       key |-> item.key, default_value |-> item.default_value,
                       type |-> item.type])

\* _initializeDefaultSchema() when the inserts of the items numbered in failed
\* fail (each failure is caught and logged) and the others succeed
RECURSIVE InitializeDefaultSchemaFrom(_, _, _)
InitializeDefaultSchemaFrom(rows, failed, i) ==
    IF i > Len(SchemaItems) THEN rows
    ELSE InitializeDefaultSchemaFrom(
            IF i \in failed THEN rows ELSE InsertOrIgnore(rows, SchemaItems[i]),
            failed, i + 1)

InitializeDefaultSchema(rows, failed) == InitializeDefaultSchemaFrom(rows, failed, 1)

\* if (!this.db) await this.initialize(), at the head of every store method,
\* when it succeeds: a store that holds a handle is left as it is
LazyInitialize ==
    /\ db' = IF db = "null" THEN "open" ELSE db
    /\ connections' = IF db = "null" THEN connections + 1 ELSE connections
    /\ agent_schema' = IF db = "null" THEN InitializeDefaultSchema(agent_schema, {})
                       ELSE agent_schema

\* the default a schema row holds, parsed by its type: JSON.parse for an
\* array, the string itself otherwise (also when JSON.parse throws)
ParseDefault(row) ==
    IF row.type = "array" /\ row.default_value = "[]" THEN <<>> ELSE row.default_value

\* the object getDefaultSchema() builds of the rows: key -> default
SchemaOf(rows) ==
    [k \in {rows[i].key : i \in DOMAIN rows} |->
        ParseDefault(rows[CHOOSE i \in DOMAIN rows : rows[i].key = k])]

\* the schema getDefaultSchema() returns when the SELECT fails
FallbackSchema == [subject |-> "test-subject", name |-> "Erica", messages |-> <<>>]

\* the try block of getDefaultSchema()
GetDefaultSchema(rows, selectFails) ==
    IF selectFails THEN FallbackSchema ELSE SchemaOf(rows)

CacheKey(sessionId, checkpointId) == sessionId \o ":" \o checkpointId

CacheSet(cache, key, entry) ==
    [k \in DOMAIN cache \cup {key} |-> IF k = key THEN entry ELSE cache[k]]

\* a generated id that is the same for every call
GeneratedCheckpointIdFixed == "ckpt_0_r0"

\* `ckpt_${Date.now()}_${Math.random().toString(36).substring(2, 15)}`
GeneratedCheckpointId == "ckpt_" \o ToString(now) \o "_r" \o ToString(rnd + 1)

\* a saveCheckpoint that leaves the cache as it is
SaveCheckpointNoCache(sessionId, state, checkpointId, second) ==
    LET id == IF checkpointId = Null THEN GeneratedCheckpointId ELSE checkpointId
    IN [id |-> id,
        memories |-> ReplaceMemory(agent_memories,
                        [session_id |-> sessionId, checkpoint_id |-> id,
                         state_data |-> Stringify(state), created_at |-> second]),
        cache |-> stateCache]

\* saveCheckpoint(sessionId, state, checkpointId) when the write succeeds, the
\* row being inserted in second `second`: the id returned, the table and the cache
SaveCheckpoint(sessionId, state, checkpointId, second) ==
    LET id == IF checkpointId = Null THEN GeneratedCheckpointId ELSE checkpointId
        stateData == Stringify(state)
    IN [id |-> id,
        memories |-> ReplaceMemory(agent_memories,
                        [session_id |-> sessionId, checkpoint_id |-> id,
                         state_data |-> stateData, created_at |-> second]),
        cache |-> CacheSet(stateCache, CacheKey(sessionId, id), [obj |-> 0, val |-> state])]

\* a saveCheckpoint that sets the cache before the write that fails
SaveCheckpointCacheFirst(sessionId, state, checkpointId) ==
    LET id == IF checkpointId = Null THEN GeneratedCheckpointId ELSE checkpointId
    IN [memories |-> agent_memories,
        cache |-> CacheSet(stateCache, CacheKey(sessionId, id), [obj |-> 0, val |-> state])]

\* saveCheckpoint(sessionId, state, checkpointId) when the INSERT OR REPLACE
\* fails: the error is thrown again before the cache is set
SaveCheckpointFailed(sessionId, state, checkpointId) ==
    [memories |-> agent_memories, cache |-> stateCache]

\* a query for the latest row without the WHERE session_id = ? clause
LatestRowsOfAll(sessionId) ==
    LET all == DOMAIN agent_memories
    IN {i \in all : \A j \in all : agent_memories[j].created_at <= agent_memories[i].created_at}

\* the rows SELECT ... ORDER BY created_at DESC LIMIT 1 may return: the order of
\* rows with equal created_at is not defined
LatestRows(sessionId) ==
    LET mine == RowsOf(agent_memories, sessionId)
    IN {i \in mine : \A j \in mine : agent_memories[j].created_at <= agent_memories[i].created_at}

MatchingRows(sessionId, checkpointId) ==
    IF checkpointId = Null THEN LatestRows(sessionId)
    ELSE {i \in RowsOf(agent_memories, sessionId) :
            agent_memories[i].checkpoint_id = checkpointId}

\* a loadCheckpoint that also puts the null of a row not found into the cache
LoadCheckpointCachingNull(sessionId, checkpointId) ==
    LET cacheKey == CacheKey(sessionId, IF checkpointId = Null THEN "latest" ELSE checkpointId)
        found == MatchingRows(sessionId, checkpointId)
    IN IF cacheKey \in DOMAIN stateCache
       THEN {[val |-> stateCache[cacheKey].val, obj |-> stateCache[cacheKey].obj,
              cache |-> stateCache]}
       ELSE IF found = {}
       THEN {[val |-> NullState, obj |-> 0,
              cache |-> CacheSet(stateCache, cacheKey, [obj |-> 0, val |-> NullState])]}
       ELSE {[val |-> Parse(agent_memories[i].state_data), obj |-> nextObj + 1,
              cache |-> CacheSet(stateCache, cacheKey,
                           [obj |-> nextObj + 1,
                            val |-> Parse(agent_memories[i].state_data)])] : i \in found}

\* loadCheckpoint(sessionId, checkpointId) when no read fails: the outcomes, each
\* the value returned, the object it is (0 for null) and the cache
LoadCheckpoint(sessionId, checkpointId) ==
    LET cacheKey == CacheKey(sessionId, IF checkpointId = Null THEN "latest" ELSE checkpointId)
        found == MatchingRows(sessionId, checkpointId)
    IN IF cacheKey \in DOMAIN stateCache
       THEN {[val |-> stateCache[cacheKey].val, obj |-> stateCache[cacheKey].obj,
              cache |-> stateCache]}
       ELSE IF found = {}
       THEN {[val |-> NullState, obj |-> 0, cache |-> stateCache]}
       ELSE {[val |-> Parse(agent_memories[i].state_data), obj |-> nextObj + 1,
              cache |-> CacheSet(stateCache, cacheKey,
                           [obj |-> nextObj + 1,
                            val |-> Parse(agent_memories[i].state_data)])] : i \in found}

\* a plain INSERT that keeps the row of the same key
InsertMessage(sessionId, messageId, role, content, second) ==
    Append(agent_messages,
        [session_id |-> sessionId, message_id |-> messageId, role |-> role,
         content |-> content, timestamp |-> second])

\* saveMessage(sessionId, messageId, role, content) when the write succeeds
SaveMessage(sessionId, messageId, role, content, second) ==
    ReplaceMessage(agent_messages,
        [session_id |-> sessionId, message_id |-> messageId, role |-> role,
         content |-> content, timestamp |-> second])

\* a query without the WHERE session_id = ? clause
GetMessagesOfAll(sessionId, limit) ==
    LET n == Len(agent_messages)
        k == IF limit < n THEN limit ELSE n
    IN {[j \in 1..k |-> [id |-> agent_messages[j].message_id, role |-> agent_messages[j].role,
                         content |-> agent_messages[j].content,
                         timestamp |-> agent_messages[j].timestamp]]}

\* getMessages(sessionId, limit) when the read succeeds: SELECT ... WHERE
\* session_id = ? ORDER BY timestamp ASC LIMIT ?, the order of rows with equal
\* timestamp not being defined; the sequences it may return
GetMessages(sessionId, limit) ==
    LET mine == RowsOf(agent_messages, sessionId)
        n == Cardinality(mine)
        k == IF limit < n THEN limit ELSE n
        ordered == {f \in [1..n -> mine] :
                      /\ \A a, b \in 1..n : a # b => f[a] # f[b]
                      /\ \A a, b \in 1..n :
                            a < b => agent_messages[f[a]].timestamp
                                        <= agent_messages[f[b]].timestamp}
    IN {[j \in 1..k |-> [id |-> agent_messages[f[j]].message_id,
                         role |-> agent_messages[f[j]].role,
                         content |-> agent_messages[f[j]].content,
                         timestamp |-> agent_messages[f[j]].timestamp]] : f \in ordered}

\* clearCache()
ClearCache == [k \in {} |-> 0]

----------------------------------------------------------------------------
(* Direct calls of the store API (as the test script and the state manager make) *)

NoCall ==
    [op |-> "none", sid |-> Null, arg |-> Null, id |-> Null, state |-> NullState,
     threw |-> FALSE, afterSave |-> FALSE, saved |-> NullState,
     content |-> Null, replaced |-> Null, limit |-> 0, rows |-> <<>>, schema |-> <<>>,
     handle |-> "null", failure |-> Null, notFound |-> FALSE]

\* the record of a call: for loadCheckpoint(sid, arg), afterSave tells that the
\* call before it was the saveCheckpoint for sid that returned arg, and saved
\* is the state given to that saveCheckpoint; handle is this.db as the call
\* found it, failure the statement that failed inside the call; notFound tells
\* of a saveCheckpoint for sid that the call before it was a loadCheckpoint(sid)
\* which returned null, and of a loadCheckpoint(sid) that the call before it
\* was such a saveCheckpoint, whose state is then in saved
CallRecord(op, sid, arg, id, state, threw) ==
    LET afterSave == /\ op = "load"
                     /\ call.op = "save" /\ ~call.threw
                     /\ call.sid = sid /\ call.id = arg
        notFound == \/ /\ op = "save"
                       /\ call.op = "load" /\ ~call.threw
                       /\ call.sid = sid /\ call.arg = Null /\ call.state = NullState
                    \/ /\ op = "load" /\ arg = Null
                       /\ call.op = "save" /\ ~call.threw
                       /\ call.sid = sid /\ call.notFound
    IN [op |-> op, sid |-> sid, arg |-> arg, id |-> id, state |-> state, threw |-> threw,
        afterSave |-> afterSave, notFound |-> notFound,
        saved |-> IF afterSave \/ (op = "load" /\ notFound) THEN call.state ELSE NullState,
        content |-> Null, replaced |-> Null, limit |-> 0, rows |-> <<>>, schema |-> <<>>,
        handle |-> db, failure |-> Null]

\* the states given to saveCheckpoint: one of them has a property that holds
\* undefined, one a message without id
StoreStates ==
    {[EmptyState EXCEPT !.subject = "physics", !.name = "AI Tutor"],
     [EmptyState EXCEPT !.subject = "history", !.checkpointId = Undefined],
     [EmptyState EXCEPT !.subject = "physics",
        !.messages = <<[role |-> "user", content |-> "q", id |-> Undefined]>>]}

\* the checkpoint ids given to saveCheckpoint and loadCheckpoint
CheckpointArgs == {Null, "c1"}

\* the checkpoint ids given to loadCheckpoint: also the id that the
\* saveCheckpoint just before returned, and the string 'latest'
ReturnedId == "<returned id>"
LoadArgs == CheckpointArgs \cup {ReturnedId, "latest"}

engineUnchanged == UNCHANGED <<engineVars, now>>

\* await sqliteMemoryService.saveCheckpoint(sessionId, state, checkpointId)
CallSaveCheckpoint(sid, state, arg) ==
    /\ calls < MaxCalls
    /\ calls' = calls + 1
    /\ LazyInitialize
    /\ engineUnchanged
    /\ UNCHANGED <<agent_messages, nextObj>>
    /\ \/ \E second \in Seconds(agent_memories, "created_at") :
            LET out == SaveCheckpoint(sid, state, arg, second)
            IN /\ agent_memories' = out.memories
               /\ stateCache' = out.cache
               /\ rnd' = IF arg = Null THEN rnd + 1 ELSE rnd
               /\ envEvents' = IF second = LastSecond(agent_memories, "created_at")
                                THEN envEvents + 1 ELSE envEvents
               /\ lastCkpt' = [lastCkpt EXCEPT ![sid] = state]
               /\ call' = CallRecord("save", sid, arg, out.id, state, FALSE)
       \/ /\ CanEvent
          /\ envEvents' = envEvents + 1
          /\ agent_memories' = SaveCheckpointFailed(sid, state, arg).memories
          /\ stateCache' = SaveCheckpointFailed(sid, state, arg).cache
          /\ call' = [CallRecord("save", sid, arg, Null, state, TRUE)
                        EXCEPT !.failure = "insert"]
          /\ UNCHANGED <<rnd, lastCkpt>>

\* await sqliteMemoryService.loadCheckpoint(sessionId, checkpointId)
CallLoadCheckpoint(sid, given) ==
    /\ calls < MaxCalls
    /\ given = ReturnedId => (call.op = "save" /\ ~call.threw)
    /\ calls' = calls + 1
    /\ LazyInitialize
    /\ engineUnchanged
    /\ UNCHANGED <<agent_memories, agent_messages, rnd, lastCkpt>>
    /\ LET arg == IF given = ReturnedId THEN call.id ELSE given
       IN \/ \E out \in LoadCheckpoint(sid, arg) :
               /\ stateCache' = out.cache
               /\ nextObj' = IF out.obj > nextObj THEN out.obj ELSE nextObj
               /\ call' = CallRecord("load", sid, arg, Null, out.val, FALSE)
               /\ UNCHANGED envEvents
          \/ /\ CanEvent
             /\ envEvents' = envEvents + 1
             /\ call' = CallRecord("load", sid, arg, Null, NullState, TRUE)
             /\ UNCHANGED <<stateCache, nextObj>>

\* sqliteMemoryService.clearCache()
CallClearCache ==
    /\ calls < MaxCalls
    /\ calls' = calls + 1
    /\ stateCache' = ClearCache
    /\ call' = CallRecord("clear", Null, Null, Null, NullState, FALSE)
    /\ engineUnchanged
    /\ UNCHANGED <<db, connections, agent_memories, agent_messages, agent_schema, rnd, nextObj, envEvents,
                   lastCkpt>>

----------------------------------------------------------------------------
(* StateManagerService.createStateManager *)

\* StateManagerService.defaultSchema as the constructor sets it: key -> default
CompileTimeSchema ==
    [subject |-> "test-subject", name |-> "Erica", messages |-> <<>>, sessionId |-> Null]

\* the own properties of a state object, as Object.keys lists them
OwnProperties(state) ==
    [k \in {j \in DOMAIN state : j = "messages" \/ state[j] # Absent} |-> state[k]]

\* { ...a, ...b } and, key by key, the assignment of b over a
Spread(a, b) ==
    [k \in DOMAIN a \cup DOMAIN b |-> IF k \in DOMAIN b THEN b[k] ELSE a[k]]

\* createStateManager(initialState) when this.defaultSchema is defaults and
\* getDefaultSchema() returned dbSchema (reachable) or threw: stateSchema is
\* this.defaultSchema itself, or a shallow copy of it under the entries of
\* dbSchema, whose entries for the other keys are those of this.defaultSchema;
\* the overrides are assigned into the entries. The result: what getState()
\* of the new manager returns, and this.defaultSchema after the call
CreateStateManager(defaults, dbSchema, reachable, initialState) ==
    LET same == ~reachable \/ DOMAIN dbSchema = {}
        stateSchema == IF same THEN defaults ELSE Spread(defaults, dbSchema)
        state == Spread(stateSchema, initialState)
        shared == IF same THEN DOMAIN state ELSE DOMAIN defaults \ DOMAIN dbSchema
    IN [state |-> state,
        defaultSchema |-> [k \in DOMAIN defaults \cup shared |->
                              IF k \in shared THEN state[k] ELSE defaults[k]],
        same |-> same,
        shared |-> shared]

\* stateManager.setState(newState) of the manager that createStateManager
\* returned as out, this.defaultSchema being defaults: the entries of the keys
\* of newState are assigned, new keys are added to the manager's schema object
SetState(defaults, out, newState) ==
    LET state == Spread(out.state, newState)
    IN [state |-> state,
        defaultSchema |-> IF out.same THEN state
                          ELSE [k \in DOMAIN defaults |->
                                  IF k \in out.shared \cap DOMAIN newState
                                  THEN newState[k] ELSE defaults[k]],
        same |-> out.same,
        shared |-> out.shared]

----------------------------------------------------------------------------
(* AgentFlowService: the turn pipeline *)

\* the session descriptor of the test script for subject physics
PhysicsProfile == [subject |-> "physics", name |-> "Physics Tutor"]

\* the session descriptors given to executeAgentFlow: subject and name
Profiles ==
    {PhysicsProfile,
     [subject |-> Absent, name |-> Absent],
     [subject |-> NumberSubject, name |-> "Test Tutor"]}

\* the message histories given to executeAgentFlow: none, or a value whose
\* elements are not message objects
Histories == {"empty", "malformed"}

\* a history of two messages, the second one without id
PriorMessages ==
    <<[role |-> "user", content |-> "p1", id |-> "h1"],
      [role |-> "assistant", content |-> "p2", id |-> Absent]>>

\* the array passed as messageHistory for a well-formed history
MessageHistory(history) == IF history = "prior" THEN PriorMessages ELSE <<>>

\* the histories with a well-formed one that is not empty
PriorHistories == Histories \cup {"prior"}

\* the number of ids _formatMessageHistory generates for a history
LegacyIds(messageHistory) ==
    Cardinality({i \in 1..Len(messageHistory) : messageHistory[i].id = Absent})

\* _formatMessageHistory(messageHistory) at time t with random string r
FormatMessageHistory(messageHistory, t, r) ==
    [i \in 1..Len(messageHistory) |->
        [role |-> messageHistory[i].role,
         content |-> messageHistory[i].content,
         id |-> IF messageHistory[i].id = Absent
                THEN "legacy_" \o ToString(t) \o "_r" \o ToString(r)
                ELSE messageHistory[i].id]]

UserText(n) == "q" \o ToString(n)

\* what the TextGenerator returns for an input
Answer(input) == "answer to " \o input

AgentFallback == "I'm having trouble processing your request. Please try again."
ExecuteApology == "I apologize, but there was an error processing your request."
FlowApology ==
    "I apologize, but there was an error processing your request. The system is being updated. Please try again later."

NoResult == [none |-> TRUE]

Result(content, subject, name, checkpointId, error) ==
    [content |-> content, subject |-> subject, name |-> name,
     checkpointId |-> checkpointId, error |-> error]

IdleTurn ==
    [pc |-> "idle", n |-> 0, sid |-> Null, subject |-> Absent, name |-> Absent,
     fromCheckpoint |-> FALSE, initial |-> NullState, obj |-> 0, state |-> NullState,
     userMsgId |-> Null, userSaved |-> FALSE, generator |-> "none",
     assistantMsgId |-> Null, hadCheckpoint |-> FALSE, loadFailed |-> FALSE,
     thrown |-> "none", evicted |-> FALSE, memoryError |-> FALSE,
     stage |-> "none", stages |-> <<>>, result |-> NoResult, history |-> <<>>,
     formattedHistory |-> <<>>, request |-> <<>>]

NoHistory == [first |-> 0, response |-> Absent, persisted |-> FALSE, turns |-> 0,
              created |-> FALSE]

\* createSubjectPromptTemplate(subject) throws a TypeError when subject is
\* neither a string nor undefined: subject?.toLowerCase is not a function
TemplateThrows(subject) == subject = NumberSubject

SystemPrompt(name, subject) ==
    "You are a friendly assistant called " \o name
        \o " who can answer basic questions on " \o subject

\* a fresh state that takes the descriptor's fields as they are
FreshStateNoDefault(sid, subject, name, formattedHistory) ==
    [EmptyState EXCEPT !.subject = subject, !.name = name,
                       !.messages = formattedHistory, !.sessionId = sid]

\* the state object built when no checkpoint was loaded
FreshState(sid, subject, name, formattedHistory) ==
    [EmptyState EXCEPT !.subject = OrElse(subject, "various subjects"),
                       !.name = OrElse(name, "AI Tutor"),
                       !.messages = formattedHistory,
                       !.sessionId = sid]

\* an assignment to a property of state object obj is seen through every cache
\* entry that holds this object
AssignThroughCache(cache, obj, val) ==
    [k \in DOMAIN cache |->
        IF obj # 0 /\ cache[k].obj = obj THEN [obj |-> obj, val |-> val] ELSE cache[k]]

\* the four stages in the order of execute
AllStages == <<"start", "agent", "memory", "end">>

\* an order of stages that leaves out the memory stage
ExecuteSkipMemory(stage) ==
    CASE stage = "start" -> "agent"
      [] stage = "agent" -> "end"
      [] stage = "memory" -> "end"
      [] stage = "end" -> "done"

\* an execute whose call of the memory stage is never resumed
ExecuteSuspended(stage) ==
    CASE stage = "start" -> "agent"
      [] stage = "agent" -> "suspended"
      [] stage = "memory" -> "end"
      [] stage = "end" -> "done"

\* execute: the stage that follows a stage
ExecuteNext(stage) ==
    CASE stage = "start" -> "agent"
      [] stage = "agent" -> "memory"
      [] stage = "memory" -> "end"
      [] stage = "end" -> "done"

Completed(stage) == [turn EXCEPT !.stages = Append(@, stage), !.stage = "none"]

\* the catch of executeAgentFlow
FlowCatch(subject, name, message) ==
    Result(FlowApology, OrElse(subject, "various subjects"), OrElse(name, "AI Tutor"),
           Absent, message)

\* an exception that leaves a function
Thrown(message) == [thrown |-> message]
IsThrown(r) == "thrown" \in DOMAIN r

\* what executeAgentFlow returns when execute(state, input) ended with r
FlowReturn(r, subject, name) ==
    IF IsThrown(r) THEN FlowCatch(subject, name, r.thrown) ELSE r

\* a catch of execute that throws the exception again
ExecuteRethrow(state, message) == Thrown(message)

\* the catch of execute
ExecuteCatch(state, message) ==
    Result(ExecuteApology, Read(state.subject), Read(state.name), Absent, message)

\* session ids are opaque: the sessions are named in the order of their first use
InOrderOfUse(sid) ==
    sid = "s2" => (sessHist["s1"].created \/ sessHist["s1"].turns > 0)

\* a getOrCreateWorkflow that constructs and stores a workflow on every call
AlwaysCreateWorkflow(registry, sessionId) == CacheSet(registry, sessionId, nextObj + 1)

\* getOrCreateWorkflow(sessionId): the registry after the call, which runs
\* without suspension; a new workflow is object nextObj + 1
GetOrCreateWorkflow(registry, sessionId) ==
    IF sessionId \in DOMAIN registry THEN registry
    ELSE CacheSet(registry, sessionId, nextObj + 1)

\* the object counter after a getOrCreateWorkflow that led from before to after
ObjectsAfter(before, after, sessionId) ==
    IF sessionId \in DOMAIN before /\ before[sessionId] = after[sessionId]
    THEN nextObj ELSE nextObj + 1

\* a cleanup that empties the registry
CleanupAll(registry, sessionId) == <<>>

\* cleanupSession(sessionId): this.workflows.delete(sessionId)
CleanupSession(registry, sessionId) ==
    [k \in DOMAIN registry \ {sessionId} |-> registry[k]]

\* number of events among the given conditions
Count(a, b, c) == (IF a THEN 1 ELSE 0) + (IF b THEN 1 ELSE 0) + (IF c THEN 1 ELSE 0)

storeCallsUnchanged == UNCHANGED <<call, calls, tasks, other, defaultSchema, sm, ops>>

\* agentService.initializeSessionState(session), called when a session is
\* created: saves the initial state as a checkpoint and does not wait for it
InitializeSessionState(sid, profile) ==
    /\ ~sessHist[sid].created
    /\ InOrderOfUse(sid)
    /\ sessHist[sid].turns = 0
    /\ turn.pc \in {"idle", "done"}
    /\ profile.subject \notin {Absent, NumberSubject}
    /\ sessHist' = [sessHist EXCEPT ![sid].created = TRUE]
    /\ LazyInitialize
    /\ UNCHANGED <<call, calls, tasks, other, sm, ops>>
    /\ UNCHANGED <<agent_messages, workflows, turn, turnNo, sessMsgs, now, nextObj>>
    /\ LET initialState ==
              [EmptyState EXCEPT !.subject = OrElse(profile.subject, "various subjects"),
                                 !.name = "AI Tutor", !.sessionId = sid,
                                 !.created = "<time>"]
       IN /\ defaultSchema' = CreateStateManager(defaultSchema, SchemaOf(agent_schema'), TRUE,
                                                 OwnProperties(initialState)).defaultSchema
          /\ \/ \E second \in Seconds(agent_memories, "created_at") :
                  LET out == SaveCheckpoint(sid, initialState, Null, second)
                  IN /\ agent_memories' = out.memories
                     /\ stateCache' = out.cache
                     /\ rnd' = rnd + 1
                     /\ lastCkpt' = [lastCkpt EXCEPT ![sid] = initialState]
                     /\ envEvents' = envEvents
                           + Count(second = LastSecond(agent_memories, "created_at"), FALSE, FALSE)
             \/ /\ CanEvent
                /\ envEvents' = envEvents + 1
                /\ UNCHANGED <<agent_memories, stateCache, rnd, lastCkpt>>

\* executeAgentFlow up to the call of loadCheckpoint
StartTurn(sid, profile, history) ==
    /\ turnNo < MaxTurns
    /\ InOrderOfUse(sid)
    /\ turn.pc \in {"idle", "done"}
    /\ turnNo' = turnNo + 1
    /\ workflows' = GetOrCreateWorkflow(workflows, sid)
    /\ nextObj' = ObjectsAfter(workflows, workflows', sid)
    /\ sessHist' = [sessHist EXCEPT ![sid].turns = @ + 1,
                                    ![sid].first = IF @ = 0 THEN turnNo + 1 ELSE @]
    /\ turn' = IF history = "malformed"
               THEN [IdleTurn EXCEPT !.pc = "done", !.n = turnNo + 1, !.sid = sid,
                        !.subject = profile.subject, !.name = profile.name,
                        !.hadCheckpoint = RowsOf(agent_memories, sid) # {},
                        !.evicted = sid \notin DOMAIN workflows /\ sessHist[sid].turns > 0,
                        !.thrown = "history",
                        !.result = FlowCatch(profile.subject, profile.name, "TypeError")]
               ELSE [IdleTurn EXCEPT !.pc = "load", !.n = turnNo + 1, !.sid = sid,
                        !.subject = profile.subject, !.name = profile.name,
                        !.hadCheckpoint = RowsOf(agent_memories, sid) # {},
                        !.evicted = sid \notin DOMAIN workflows /\ sessHist[sid].turns > 0,
                        !.history = FormatMessageHistory(MessageHistory(history), now, rnd)]
    /\ rnd' = IF history = "malformed" THEN rnd
              ELSE rnd + LegacyIds(MessageHistory(history))
    /\ storeCallsUnchanged
    /\ UNCHANGED <<storeVars, now, envEvents, sessMsgs, lastCkpt>>

\* a choice of the state that takes subject and name from the descriptor also
\* when a checkpoint was loaded
LoadReturnDescriptor(t, initialState, obj) ==
    LET loaded == initialState # NullState
        fresh == FreshState(t.sid, t.subject, t.name, t.history)
        state == IF loaded
                 THEN [initialState EXCEPT !.subject = fresh.subject, !.name = fresh.name]
                 ELSE fresh
    IN [t EXCEPT !.pc = "saveUser", !.fromCheckpoint = loaded,
                 !.initial = IF loaded THEN initialState ELSE fresh,
                 !.state = state, !.obj = obj]

\* a choice of the state that puts the formatted history before the messages
\* of a loaded checkpoint
LoadReturnWithHistory(t, initialState, obj) ==
    LET loaded == initialState # NullState
        state == IF loaded THEN [initialState EXCEPT !.messages = t.history \o @]
                 ELSE FreshState(t.sid, t.subject, t.name, t.history)
    IN [t EXCEPT !.pc = "saveUser", !.fromCheckpoint = loaded, !.initial = state,
                 !.state = state, !.obj = obj,
                 !.subject = @,
                 !.name = IF loaded THEN Absent ELSE @]

\* const state = initialState || { ... }: the turn once loadCheckpoint returned
\* initialState, which is object obj
LoadReturn(t, initialState, obj) ==
    LET loaded == initialState # NullState
        state == IF loaded THEN initialState ELSE FreshState(t.sid, t.subject, t.name, t.history)
    IN [t EXCEPT !.pc = "saveUser", !.fromCheckpoint = loaded, !.initial = state,
                 !.state = state, !.obj = obj,
                 !.subject = @,
                 !.name = IF loaded THEN Absent ELSE @]

\* a failed loadCheckpoint that ends the turn in the catch of executeAgentFlow
LoadAbort(t) ==
    [t EXCEPT !.pc = "done", !.loadFailed = TRUE,
              !.result = FlowCatch(t.subject, t.name, "Error")]

\* the catch of a failed loadCheckpoint: initialState stays null
LoadCatch(t) == [LoadReturn(t, NullState, 0) EXCEPT !.loadFailed = TRUE]

\* loadCheckpoint(tutorSession.id) and the choice of the state
TurnLoad ==
    /\ turn.pc = "load"
    /\ LazyInitialize
    /\ storeCallsUnchanged
    /\ UNCHANGED <<agent_memories, agent_messages, workflows, turnNo, sessHist, now, rnd,
                   lastCkpt>>
    /\ \/ \E out \in LoadCheckpoint(turn.sid, Null) :
            /\ stateCache' = out.cache
            /\ nextObj' = IF out.obj > nextObj THEN out.obj ELSE nextObj
            /\ turn' = LoadReturn(turn, out.val, out.obj)
            /\ UNCHANGED envEvents
       \/ /\ CanEvent
          /\ envEvents' = envEvents + 1
          /\ turn' = LoadCatch(turn)
          /\ UNCHANGED <<stateCache, nextObj>>
    /\ sessMsgs' = IF turn'.state = NullState THEN sessMsgs
                   ELSE [sessMsgs EXCEPT ![turn.sid] = turn'.state.messages]

\* saveMessage(tutorSession.id, `msg_${Date.now()}`, 'user', userMessage)
TurnSaveUser ==
    /\ turn.pc = "saveUser"
    /\ LazyInitialize
    /\ storeCallsUnchanged
    /\ UNCHANGED <<agent_memories, stateCache, workflows, turnNo, sessHist, sessMsgs, rnd,
                   nextObj, lastCkpt>>
    /\ \E t \in ClockReads, ok \in BOOLEAN :
          LET second == LastSecond(agent_messages, "timestamp") + 1
              messageId == "msg_" \o ToString(t)
          IN /\ envEvents + Count(t = now, ~ok, FALSE) <= MaxEnvEvents
             /\ envEvents' = envEvents + Count(t = now, ~ok, FALSE)
             /\ now' = t
             /\ agent_messages' =
                   IF ok THEN SaveMessage(turn.sid, messageId, "user", UserText(turn.n), second)
                   ELSE agent_messages
             /\ turn' = [turn EXCEPT !.pc = "start", !.userMsgId = messageId,
                            !.userSaved = ok]

\* a suspended call that has not yet passed its own assignment to
\* state.messages holds the loaded object itself: an assignment to a property
\* of object obj is seen by it when its state is this object
AssignToShared(t, obj, val) ==
    IF obj # 0 /\ t.obj = obj /\ t.pc \in {"saveUser", "start"}
    THEN [t EXCEPT !.state = val]
    ELSE t

\* the assignment to state.messages after the user message was saved, and the
\* start stage, which runs before executeAgentFlow is suspended again
TurnStart ==
    /\ turn.pc = "start"
    /\ LET message == [role |-> "user", content |-> UserText(turn.n), id |-> turn.userMsgId]
           state == IF turn.userSaved
                    THEN [turn.state EXCEPT !.messages = Append(@, message)]
                    ELSE turn.state
       IN /\ stateCache' = IF turn.userSaved
                           THEN AssignThroughCache(stateCache, turn.obj, state)
                           ELSE stateCache
          /\ sessMsgs' = [sessMsgs EXCEPT ![turn.sid] = state.messages]
          /\ turn' = IF TemplateThrows(state.subject)
                     THEN [turn EXCEPT !.pc = "done", !.state = state, !.thrown = "start",
                              !.result = FlowReturn(ExecuteCatch(state, "TypeError"),
                                                    turn.subject, turn.name)]
                     ELSE [Completed("start") EXCEPT !.pc = ExecuteNext("start"),
                              !.state = [state EXCEPT !.systemPrompt =
                                            SystemPrompt(state.name, state.subject)]]
          /\ other' = IF turn.userSaved THEN AssignToShared(other, turn.obj, state)
                       ELSE other
    /\ UNCHANGED <<call, calls, tasks, defaultSchema, sm, ops>>
    /\ UNCHANGED <<db, connections, agent_memories, agent_messages, agent_schema, workflows, turnNo,
                   sessHist, envVars,
                   lastCkpt>>

\* an agent stage whose catch keeps no response
AgentResponseNoFallback(ok, input) == IF ok THEN Answer(input) ELSE Undefined

\* state.response after the agent stage: the generator's answer, or the fixed
\* string of the catch when the generator failed
AgentResponse(ok, input) == IF ok THEN Answer(input) ELSE AgentFallback

\* formattedHistory of the agent stage: the system prompt and state.messages
FormattedHistory(state) ==
    <<[role |-> "system", content |-> state.systemPrompt]>> \o state.messages

\* the system message generateTutorResponse puts first
TutorPrompt(subject) ==
    "You are a friendly and knowledgeable tutor specializing in "
        \o OrElse(subject, "various subjects")

NotSystem(msg) == msg.role # "system"

\* the messages of the request generateTutorResponse(userMessage, session,
\* messageHistory) builds when an API key is configured
TutorRequest(userMessage, session, messageHistory) ==
    LET apiMessages == SelectSeq(messageHistory, NotSystem)
    IN <<[role |-> "system", content |-> TutorPrompt(session.subject)]>>
          \o [i \in 1..Len(apiMessages) |->
                 [role |-> apiMessages[i].role, content |-> apiMessages[i].content]]
          \o <<[role |-> "user", content |-> userMessage]>>

\* the agent stage: the call of the generator and what the stage returns
TurnAgent ==
    /\ turn.pc = "agent"
    /\ \E ok \in BOOLEAN :
          /\ ~ok => CanEvent
          /\ envEvents' = envEvents + Count(~ok, FALSE, FALSE)
          /\ turn' = [Completed("agent") EXCEPT !.pc = ExecuteNext("agent"),
                         !.generator = IF ok THEN "returned" ELSE "threw",
                         !.formattedHistory = FormattedHistory(turn.state),
                         !.request = TutorRequest(UserText(turn.n),
                                        [id |-> turn.state.sessionId,
                                         subject |-> turn.state.subject],
                                        FormattedHistory(turn.state)),
                         !.state = [turn.state EXCEPT !.response =
                                       AgentResponse(ok, UserText(turn.n))]]
    /\ storeCallsUnchanged
    /\ UNCHANGED <<storeVars, workflows, turnNo, sessHist, sessMsgs, now, rnd, nextObj,
                   lastCkpt>>

NoManagerCall == [op |-> "none"]

\* the callers of store methods that may be in flight together
Callers == {"a", "b"}

\* a store method call: from its lazy guard to its return
IdleOperation == [pc |-> "idle", op |-> Null, early |-> FALSE, failed |-> FALSE]

\* no store method in flight and no initialize() under way
NoOperations ==
    [init |-> "none", created |-> {}, op |-> [c \in Callers |-> IdleOperation]]

\* the callers of getOrCreateWorkflow that may be in flight together
Tasks == {"t1", "t2"}

\* a caller: running from its getOrCreateWorkflow(sid), which returned wf, to
\* its return; current until cleanupSession(sid) is called
IdleTask == [pc |-> "idle", sid |-> Null, wf |-> 0, current |-> FALSE]

StoreInit ==
    /\ db = "null"
    /\ agent_memories = <<>>
    /\ agent_messages = <<>>
    /\ stateCache = ClearCache
    /\ workflows = <<>>
    /\ tasks = [t \in Tasks |-> IdleTask]
    /\ agent_schema = <<>>
    /\ connections = 0
    /\ defaultSchema = CompileTimeSchema
    /\ sm = NoManagerCall
    /\ now = 0
    /\ rnd = 0
    /\ nextObj = 0
    /\ turn = IdleTurn
    /\ other = IdleTurn
    /\ turnNo = 0
    /\ envEvents = 0
    /\ sessMsgs = [s \in Sessions |-> <<>>]
    /\ sessHist = [s \in Sessions |-> NoHistory]
    /\ lastCkpt = [s \in Sessions |-> NullState]
    /\ call = NoCall
    /\ calls = 0
    /\ ops = NoOperations

StoreNext ==
    \/ \E sid \in Sessions, state \in StoreStates, arg \in CheckpointArgs :
          CallSaveCheckpoint(sid, state, arg)
    \/ \E sid \in Sessions, arg \in LoadArgs : CallLoadCheckpoint(sid, arg)
    \/ CallClearCache

StoreSpec == StoreInit /\ [][StoreNext]_vars

----------------------------------------------------------------------------
(* The life cycle of the store: initialize(), close(), getDefaultSchema() *)

\* close() that releases the handle and keeps the cache
CloseHandleOnly(handle, cache) ==
    IF handle = "null" THEN [db |-> handle, stateCache |-> cache, released |-> 0]
    ELSE [db |-> "null", stateCache |-> cache, released |-> 1]

\* close() when this.db.close succeeds: without a handle nothing is done
Close(handle, cache) ==
    IF handle = "null" THEN [db |-> handle, stateCache |-> cache, released |-> 0]
    ELSE [db |-> "null", stateCache |-> ClearCache, released |-> 1]

lifecycleUnchanged ==
    /\ engineUnchanged
    /\ UNCHANGED <<agent_memories, agent_messages, rnd, nextObj, lastCkpt>>

\* await sqliteMemoryService.initialize(): a new connection whatever this.db
\* holds; the inserts of the items in failed fail and are logged; when a
\* CREATE TABLE fails the call rejects and the new handle stays in this.db
CallInitialize ==
    /\ calls < MaxCalls
    /\ calls' = calls + 1
    /\ lifecycleUnchanged
    /\ UNCHANGED stateCache
    /\ connections' = connections + 1
    /\ \/ \E failed \in SUBSET DOMAIN SchemaItems :
            /\ envEvents + Cardinality(failed) <= MaxEnvEvents
            /\ envEvents' = envEvents + Cardinality(failed)
            /\ db' = "open"
            /\ agent_schema' = InitializeDefaultSchema(agent_schema, failed)
            /\ call' = CallRecord("initialize", Null, Null, Null, NullState, FALSE)
       \/ /\ CanEvent
          /\ envEvents' = envEvents + 1
          /\ db' = "uninitialized"
          /\ call' = CallRecord("initialize", Null, Null, Null, NullState, TRUE)
          /\ UNCHANGED agent_schema

\* await sqliteMemoryService.close()
CallClose ==
    /\ calls < MaxCalls
    /\ calls' = calls + 1
    /\ lifecycleUnchanged
    /\ UNCHANGED agent_schema
    /\ \/ LET out == Close(db, stateCache)
          IN /\ db' = out.db
             /\ stateCache' = out.stateCache
             /\ connections' = connections - out.released
             /\ call' = CallRecord("close", Null, Null, Null, NullState, FALSE)
             /\ UNCHANGED envEvents
       \/ /\ db # "null"
          /\ CanEvent
          /\ envEvents' = envEvents + 1
          /\ call' = CallRecord("close", Null, Null, Null, NullState, TRUE)
          /\ UNCHANGED <<db, connections, stateCache>>

\* await sqliteMemoryService.getDefaultSchema(): the initialize() of a store
\* without handle is awaited outside the try block
CallGetDefaultSchema ==
    /\ calls < MaxCalls
    /\ calls' = calls + 1
    /\ lifecycleUnchanged
    /\ UNCHANGED stateCache
    /\ \/ \E selectFails \in BOOLEAN :
            /\ selectFails => CanEvent
            /\ envEvents' = IF selectFails THEN envEvents + 1 ELSE envEvents
            /\ LazyInitialize
            /\ call' = [CallRecord("schema", Null, Null, Null, NullState, FALSE)
                          EXCEPT !.schema = GetDefaultSchema(agent_schema', selectFails),
                                 !.failure = IF selectFails THEN "select" ELSE Null]
       \/ /\ db = "null"
          /\ CanEvent
          /\ envEvents' = envEvents + 1
          /\ db' = "uninitialized"
          /\ connections' = connections + 1
          /\ call' = [CallRecord("schema", Null, Null, Null, NullState, TRUE)
                        EXCEPT !.failure = "initialize"]
          /\ UNCHANGED agent_schema

LifecycleNext ==
    \/ CallInitialize
    \/ CallClose
    \/ CallGetDefaultSchema
    \/ \E state \in StoreStates : CallSaveCheckpoint("s1", state, "c1")
    \/ CallLoadCheckpoint("s1", "c1")

LifecycleSpec == StoreInit /\ [][LifecycleNext]_vars

----------------------------------------------------------------------------
(* Direct calls of createStateManager *)

\* the initial states given to createStateManager: none, a session id, the
\* initial state that initializeSessionState builds, a name
InitialStates ==
    {[k \in {} |-> Null],
     [sessionId |-> "s1"],
     [subject |-> "physics", name |-> "AI Tutor", messages |-> <<>>, sessionId |-> "s2",
      created |-> "<time>"],
     [name |-> "Ada"]}

\* (await stateManagerService.createStateManager(initialState)).getState()
CallCreateStateManager(initialState) ==
    /\ calls < MaxCalls
    /\ calls' = calls + 1
    /\ UNCHANGED <<workflows, turn, other, turnNo, sessMsgs, sessHist, tasks, now, ops>>
    /\ UNCHANGED <<agent_memories, agent_messages, stateCache, rnd, nextObj, lastCkpt, call>>
    /\ \/ \E selectFails \in BOOLEAN :
            /\ selectFails => CanEvent
            /\ envEvents' = IF selectFails THEN envEvents + 1 ELSE envEvents
            /\ LazyInitialize
            /\ LET dbSchema == GetDefaultSchema(agent_schema', selectFails)
                   out == CreateStateManager(defaultSchema, dbSchema, TRUE, initialState)
               IN /\ defaultSchema' = out.defaultSchema
                  /\ sm' = [op |-> "create", initialState |-> initialState,
                            reachable |-> TRUE, dbSchema |-> dbSchema,
                            state |-> out.state, before |-> defaultSchema,
                            same |-> out.same, shared |-> out.shared]
       \/ /\ db = "null"
          /\ CanEvent
          /\ envEvents' = envEvents + 1
          /\ db' = "uninitialized"
          /\ connections' = connections + 1
          /\ UNCHANGED agent_schema
          /\ LET out == CreateStateManager(defaultSchema, FallbackSchema, FALSE, initialState)
             IN /\ defaultSchema' = out.defaultSchema
                /\ sm' = [op |-> "create", initialState |-> initialState,
                          reachable |-> FALSE, dbSchema |-> [k \in {} |-> Null],
                          state |-> out.state, before |-> defaultSchema,
                          same |-> out.same, shared |-> out.shared]

\* the patches given to setState
Patches == {[sessionId |-> "s3"], [subject |-> "biology"]}

\* stateManager.setState(newState) on the manager created last
CallSetState(newState) ==
    /\ calls < MaxCalls
    /\ sm.op \in {"create", "set"}
    /\ calls' = calls + 1
    /\ UNCHANGED <<workflows, turn, other, turnNo, sessMsgs, sessHist, tasks, now, ops>>
    /\ UNCHANGED <<storeVars, rnd, nextObj, envEvents, lastCkpt, call>>
    /\ LET out == SetState(defaultSchema, sm, newState)
       IN /\ defaultSchema' = out.defaultSchema
          /\ sm' = [sm EXCEPT !.op = "set", !.state = out.state, !.before = defaultSchema]

ManagerNext ==
    \/ \E initialState \in InitialStates : CallCreateStateManager(initialState)
    \/ \E newState \in Patches : CallSetState(newState)
    \/ CallInitialize
    \/ CallClose

ManagerSpec == StoreInit /\ [][ManagerNext]_vars

----------------------------------------------------------------------------
(* Store calls with session ids and checkpoint ids that contain ':' *)

\* session ids and checkpoint ids, some of which contain ':' or are 'latest'
KeySessions == {"s1", "s1:c1"}
KeyIds == {"c1", "c1:c1", "c1:latest", "latest"}

\* a state that names the session and the id it is saved under
KeyState(sid, id) == [EmptyState EXCEPT !.sessionId = sid, !.checkpointId = id]

KeyNext ==
    \/ \E sid \in KeySessions, id \in KeyIds : CallSaveCheckpoint(sid, KeyState(sid, id), id)
    \/ \E sid \in KeySessions, id \in KeyIds \cup {Null} : CallLoadCheckpoint(sid, id)

KeySpec == StoreInit /\ [][KeyNext]_vars

----------------------------------------------------------------------------
(* Direct calls of the message log API *)

\* the message ids and contents given to saveMessage
MessageIds == {"m1", "m2"}
Contents == {"hello", "bye"}

\* getMessages(sessionId, limit = 100)
DefaultLimit == 100

\* the limits given to getMessages, the default when none is given
Limits == {0, 1, 2, DefaultLimit}

\* the content of the row of a message, Null when there is none
ContentOf(rows, sid, messageId) ==
    LET found == {i \in RowsOf(rows, sid) : rows[i].message_id = messageId}
    IN IF found = {} THEN Null ELSE rows[CHOOSE i \in found : TRUE].content

\* await sqliteMemoryService.saveMessage(sessionId, messageId, role, content)
CallSaveMessage(sid, messageId, content) ==
    /\ calls < MaxCalls
    /\ calls' = calls + 1
    /\ LazyInitialize
    /\ engineUnchanged
    /\ UNCHANGED <<agent_memories, stateCache, rnd, nextObj, lastCkpt>>
    /\ LET record == CallRecord("saveMessage", sid, messageId, Null, NullState, FALSE)
       IN \/ \E second \in Seconds(agent_messages, "timestamp") :
               /\ agent_messages' = SaveMessage(sid, messageId, "user", content, second)
               /\ envEvents' = IF second = LastSecond(agent_messages, "timestamp")
                                THEN envEvents + 1 ELSE envEvents
               /\ call' = [record EXCEPT !.content = content,
                              !.replaced = ContentOf(agent_messages, sid, messageId)]
          \/ /\ CanEvent
             /\ envEvents' = envEvents + 1
             /\ call' = [record EXCEPT !.content = content, !.threw = TRUE]
             /\ UNCHANGED agent_messages

\* await sqliteMemoryService.getMessages(sessionId, limit)
CallGetMessages(sid, limit) ==
    /\ calls < MaxCalls
    /\ calls' = calls + 1
    /\ LazyInitialize
    /\ engineUnchanged
    /\ UNCHANGED <<agent_memories, agent_messages, stateCache, rnd, nextObj, lastCkpt>>
    /\ LET record == [CallRecord("getMessages", sid, Null, Null, NullState, FALSE)
                         EXCEPT !.limit = limit]
       IN \/ \E rows \in GetMessages(sid, limit) :
               /\ call' = [record EXCEPT !.rows = rows]
               /\ UNCHANGED envEvents
          \/ /\ CanEvent
             /\ envEvents' = envEvents + 1
             /\ call' = [record EXCEPT !.threw = TRUE]

MessageNext ==
    \/ \E sid \in Sessions, messageId \in MessageIds, content \in Contents :
          CallSaveMessage(sid, messageId, content)
    \/ \E sid \in Sessions, limit \in Limits : CallGetMessages(sid, limit)

MessageSpec == StoreInit /\ [][MessageNext]_vars

----------------------------------------------------------------------------
(* The workflow registry under callers that are in flight at the same time *)

registryUnchanged ==
    UNCHANGED <<storeVars, turn, other, sessMsgs, sessHist, now, rnd, envEvents, lastCkpt,
                call, defaultSchema, sm, ops>>

\* a caller enters executeAgentFlow: getOrCreateWorkflow(tutorSession.id) runs
\* before the first await
TaskGetWorkflow(t, sid) ==
    /\ tasks[t].pc = "idle"
    /\ turnNo < MaxTurns
    /\ turnNo' = turnNo + 1
    /\ workflows' = GetOrCreateWorkflow(workflows, sid)
    /\ nextObj' = ObjectsAfter(workflows, workflows', sid)
    /\ tasks' = [tasks EXCEPT ![t] = [pc |-> "running", sid |-> sid,
                                      wf |-> workflows'[sid], current |-> TRUE]]
    /\ UNCHANGED calls
    /\ registryUnchanged

\* executeAgentFlow of a caller returns
TaskReturn(t) ==
    /\ tasks[t].pc = "running"
    /\ tasks' = [tasks EXCEPT ![t] = IdleTask]
    /\ UNCHANGED <<workflows, nextObj, turnNo, calls>>
    /\ registryUnchanged

\* tutorAgentService.endSession(sessionId) while callers may be in flight
TaskEndSession(sid) ==
    /\ calls < MaxCalls
    /\ calls' = calls + 1
    /\ workflows' = CleanupSession(workflows, sid)
    /\ tasks' = [t \in Tasks |->
                    IF tasks[t].sid = sid THEN [tasks[t] EXCEPT !.current = FALSE]
                    ELSE tasks[t]]
    /\ UNCHANGED <<nextObj, turnNo>>
    /\ registryUnchanged

RegistryNext ==
    \/ \E t \in Tasks, sid \in Sessions : TaskGetWorkflow(t, sid)
    \/ \E t \in Tasks : TaskReturn(t)
    \/ \E sid \in Sessions : TaskEndSession(sid)

RegistrySpec == StoreInit /\ [][RegistryNext]_vars

----------------------------------------------------------------------------
(* Generated checkpoint ids: the clock and the random suffix as they are read *)

\* the values Math.random().toString(36).substring(2, 15) may take: nothing
\* in the code excludes a value drawn before
RandomDraws == {1, 2}

\* `ckpt_${Date.now()}_${Math.random().toString(36).substring(2, 15)}` when
\* Date.now() returned t and the suffix drawn is r
GeneratedId(t, r) == "ckpt_" \o ToString(t) \o "_r" \o ToString(r)

\* await saveCheckpoint(sessionId, state) without an id: the id is built from
\* the clock and the draw, then the row is written and the cache updated
CallSaveGenerated(sid, state) ==
    /\ calls < MaxCalls
    /\ calls' = calls + 1
    /\ LazyInitialize
    /\ UNCHANGED <<engineVars, agent_messages, nextObj, envEvents>>
    /\ \E t \in {now, now + 1}, r \in RandomDraws :
          LET second == LastSecond(agent_memories, "created_at") + 1
              out == SaveCheckpoint(sid, state, GeneratedId(t, r), second)
          IN /\ now' = t
             /\ rnd' = r
             /\ agent_memories' = out.memories
             /\ stateCache' = out.cache
             /\ lastCkpt' = [lastCkpt EXCEPT ![sid] = state]
             /\ call' = CallRecord("save", sid, Null, out.id, state, FALSE)

\* the process ends and a new one starts: a new SQLiteAgentMemory without
\* connection and with an empty cache, the table being kept by the file
Restart ==
    /\ calls < MaxCalls
    /\ calls' = calls + 1
    /\ db' = "null"
    /\ connections' = 0
    /\ stateCache' = ClearCache
    /\ call' = CallRecord("restart", Null, Null, Null, NullState, FALSE)
    /\ UNCHANGED <<engineVars, agent_memories, agent_messages, agent_schema, now, rnd, nextObj,
                   envEvents, lastCkpt>>

IdNext ==
    \/ \E sid \in Sessions, state \in StoreStates : CallSaveGenerated(sid, state)
    \/ Restart

IdSpec == StoreInit /\ [][IdNext]_vars

\* a catch of the memory stage that returns the state without its response
MemoryCatchNoResponse(state) == [state EXCEPT !.response = Absent]

\* the catch of the memory stage: return state
MemoryCatch(state) == state

\* a message of the memory stage that holds the system prompt as content
AssistantMessageOfPrompt(state, messageId) ==
    [role |-> "assistant", content |-> state.systemPrompt, id |-> messageId]

\* { role: 'assistant', content: state.response, id: messageId }
AssistantMessage(state, messageId) ==
    [role |-> "assistant", content |-> state.response, id |-> messageId]

\* the memory stage up to the end of saveMessage(state.sessionId,
\* `msg_${Date.now()}`, 'assistant', state.response); a failure ends the stage
TurnMemorySaveMessage ==
    /\ turn.pc = "memory"
    /\ LazyInitialize
    /\ storeCallsUnchanged
    /\ UNCHANGED <<agent_memories, stateCache, workflows, turnNo, sessHist, sessMsgs, rnd,
                   nextObj, lastCkpt>>
    /\ \E t \in ClockReads, ok \in BOOLEAN :
          LET second == LastSecond(agent_messages, "timestamp") + 1
              messageId == "msg_" \o ToString(t)
          IN /\ envEvents + Count(t = now, ~ok, FALSE) <= MaxEnvEvents
             /\ envEvents' = envEvents + Count(t = now, ~ok, FALSE)
             /\ now' = t
             /\ agent_messages' =
                   IF ok THEN SaveMessage(turn.state.sessionId, messageId, "assistant",
                                          turn.state.response, second)
                   ELSE agent_messages
             /\ turn' = IF ok
                        THEN [turn EXCEPT !.pc = "memoryCheckpoint", !.stage = "memory",
                                 !.assistantMsgId = messageId]
                        ELSE [Completed("memory") EXCEPT !.pc = ExecuteNext("memory"),
                                 !.state = MemoryCatch(turn.state),
                                 !.memoryError = TRUE]

\* a memory stage that returns the state it saved, without the id
MemoryReturnSaved(saved, checkpointId) == saved

\* what the memory stage returns after both saves: { ...state, messages,
\* checkpointId }
MemoryReturn(saved, checkpointId) == [saved EXCEPT !.checkpointId = checkpointId]

\* the rest of the memory stage: saveCheckpoint(state.sessionId,
\* { ...state, messages }) and what the stage returns
TurnMemorySaveCheckpoint ==
    /\ turn.pc = "memoryCheckpoint"
    /\ LazyInitialize
    /\ storeCallsUnchanged
    /\ UNCHANGED <<agent_messages, workflows, turnNo, sessHist, now, nextObj>>
    /\ LET message == AssistantMessage(turn.state, turn.assistantMsgId)
           saved == [turn.state EXCEPT !.messages = Append(@, message)]
       IN \/ \E second \in Seconds(agent_memories, "created_at") :
               LET out == SaveCheckpoint(turn.state.sessionId, saved, Null, second)
                   tie == second = LastSecond(agent_memories, "created_at")
               IN /\ envEvents + Count(tie, FALSE, FALSE) <= MaxEnvEvents
                  /\ envEvents' = envEvents + Count(tie, FALSE, FALSE)
                  /\ agent_memories' = out.memories
                  /\ stateCache' = out.cache
                  /\ rnd' = rnd + 1
                  /\ lastCkpt' = [lastCkpt EXCEPT ![turn.state.sessionId] = saved]
                  /\ sessMsgs' = [sessMsgs EXCEPT ![turn.sid] = saved.messages]
                  /\ turn' = [Completed("memory") EXCEPT !.pc = ExecuteNext("memory"),
                                 !.state = MemoryReturn(saved, out.id)]
          \/ /\ CanEvent
             /\ envEvents' = envEvents + 1
             /\ turn' = [Completed("memory") EXCEPT !.pc = ExecuteNext("memory"),
                            !.state = MemoryCatch(turn.state),
                            !.memoryError = TRUE]
             /\ UNCHANGED <<agent_memories, stateCache, rnd, lastCkpt, sessMsgs>>

\* the end stage, and the return of execute and of executeAgentFlow
TurnEnd ==
    /\ turn.pc = "end"
    /\ turn' = [Completed("end") EXCEPT !.pc = ExecuteNext("end"),
                   !.result = Result(Read(turn.state.response), Read(turn.state.subject),
                                     Read(turn.state.name), Read(turn.state.checkpointId),
                                     Absent)]
    /\ sessHist' = IF sessHist[turn.sid].first = turn.n
                   THEN [sessHist EXCEPT ![turn.sid].response = turn.state.response,
                            ![turn.sid].persisted = turn.state.checkpointId # Absent]
                   ELSE sessHist
    /\ storeCallsUnchanged
    /\ UNCHANGED <<storeVars, workflows, turnNo, sessMsgs, envVars, lastCkpt>>

\* tutorAgentService.endSession(sessionId), called between turns:
\* agentFlowService.cleanupSession(sessionId)
EndSession(sid) ==
    /\ sid \in DOMAIN workflows
    /\ turn.pc \in {"idle", "done"}
    /\ workflows' = CleanupSession(workflows, sid)
    /\ storeCallsUnchanged
    /\ UNCHANGED <<storeVars, turn, turnNo, sessMsgs, sessHist, envVars, lastCkpt>>

Init == StoreInit

Next ==
    \/ \E sid \in Sessions, profile \in Profiles : InitializeSessionState(sid, profile)
    \/ \E sid \in Sessions, profile \in Profiles, history \in Histories :
          StartTurn(sid, profile, history)
    \/ TurnLoad
    \/ TurnSaveUser
    \/ TurnStart
    \/ TurnAgent
    \/ TurnMemorySaveMessage
    \/ TurnMemorySaveCheckpoint
    \/ TurnEnd

Spec == Init /\ [][Next]_vars

\* turns of sessions on one subject, with endSession between them
SessionNext ==
    \/ \E sid \in Sessions : InitializeSessionState(sid, PhysicsProfile)
    \/ \E sid \in Sessions : StartTurn(sid, PhysicsProfile, "empty")
    \/ TurnLoad
    \/ TurnSaveUser
    \/ TurnStart
    \/ TurnAgent
    \/ TurnMemorySaveMessage
    \/ TurnMemorySaveCheckpoint
    \/ TurnEnd
    \/ \E sid \in Sessions : EndSession(sid)

SessionSpec == Init /\ [][SessionNext]_vars

----------------------------------------------------------------------------
(* Overlapping turns: executeAgentFlow calls suspended at their awaits *)

\* the session descriptor of the test script for subject history
HistoryProfile == [subject |-> "history", name |-> "History Tutor"]

\* each session has its own subject
ProfileOf(sid) == IF sid = "s1" THEN PhysicsProfile ELSE HistoryProfile

\* the requests whose executeAgentFlow calls may overlap
Requests == {"r1", "r2"}

InFlight(t) == t.pc \notin {"idle", "done"}

\* the running call is suspended at its await and the event loop resumes the
\* other call, or leaves room for a new call
Switch ==
    /\ \/ InFlight(other)
       \/ InFlight(turn) /\ turnNo < MaxTurns /\ turnNo < Cardinality(Requests)
    /\ turn' = other
    /\ other' = turn
    /\ UNCHANGED <<storeVars, workflows, turnNo, sessMsgs, sessHist, tasks, envVars,
                   histVars, defaultSchema, sm, ops>>

\* a request enters executeAgentFlow for its session
StartRequest(sid) ==
    /\ turnNo < Cardinality(Requests)
    /\ StartTurn(sid, ProfileOf(sid), "empty")

\* turns of two sessions, each on its subject, that may overlap
ConcNext ==
    \/ \E sid \in Sessions : InitializeSessionState(sid, ProfileOf(sid))
    \/ \E sid \in Sessions : StartRequest(sid)
    \/ TurnLoad
    \/ TurnSaveUser
    \/ TurnStart
    \/ TurnAgent
    \/ TurnMemorySaveMessage
    \/ TurnMemorySaveCheckpoint
    \/ TurnEnd
    \/ Switch

ConcSpec == Init /\ [][ConcNext]_vars

----------------------------------------------------------------------------
(* Turns with endSession, clearCache and close between them *)

\* the store calls made between the turns
BetweenTurns == {"clearCache", "close"}

\* sqliteMemoryService.clearCache() between two turns
ClearCacheBetweenTurns ==
    /\ turn.pc \in {"idle", "done"}
    /\ calls < Cardinality(BetweenTurns)
    /\ CallClearCache

\* await sqliteMemoryService.close() between two turns
CloseBetweenTurns ==
    /\ turn.pc \in {"idle", "done"}
    /\ calls < Cardinality(BetweenTurns)
    /\ CallClose

\* the first session is created through initializeSessionState, the other
\* one by its first turn
FrameNext ==
    \/ InitializeSessionState("s1", ProfileOf("s1"))
    \/ \E sid \in Sessions : StartRequest(sid)
    \/ TurnLoad
    \/ TurnSaveUser
    \/ TurnStart
    \/ TurnAgent
    \/ TurnMemorySaveMessage
    \/ TurnMemorySaveCheckpoint
    \/ TurnEnd
    \/ \E sid \in Sessions : EndSession(sid)
    \/ ClearCacheBetweenTurns
    \/ CloseBetweenTurns

FrameSpec == Init /\ [][FrameNext]_vars

----------------------------------------------------------------------------
(* Turns that are given a message history *)

\* the first session is created through initializeSessionState; every turn
\* is given any of the histories
PriorNext ==
    \/ InitializeSessionState("s1", ProfileOf("s1"))
    \/ \E sid \in Sessions, history \in PriorHistories :
          StartTurn(sid, ProfileOf(sid), history)
    \/ TurnLoad
    \/ TurnSaveUser
    \/ TurnStart
    \/ TurnAgent
    \/ TurnMemorySaveMessage
    \/ TurnMemorySaveCheckpoint
    \/ TurnEnd

PriorSpec == Init /\ [][PriorNext]_vars

----------------------------------------------------------------------------
(* Store methods started together on a store without handle *)

\* the tables in the order initialize() creates them
Tables == <<"agent_memories", "agent_messages", "agent_schema">>

StoreMethods == {"saveCheckpoint", "saveMessage", "loadCheckpoint"}

\* the table the statement of a store method reads or writes
TableOf(method) == IF method = "saveMessage" THEN "agent_messages" ELSE "agent_memories"

\* what initialize() awaits after the CREATE TABLE of table number i
AfterTable(i) == IF i < Len(Tables) THEN Tables[i + 1] ELSE "seed"

\* the state of a method call once it has passed the lazy guard: it runs to
\* the await of its statement; a loadCheckpoint whose key is cached returns
\* without a statement
PastGuard(method, inProgress) ==
    IF method = "loadCheckpoint" /\ CacheKey("s1", "latest") \in DOMAIN stateCache
    THEN [pc |-> "done", op |-> method, early |-> FALSE, failed |-> FALSE]
    ELSE [pc |-> "issued", op |-> method, early |-> inProgress, failed |-> FALSE]

lazyUnchanged ==
    UNCHANGED <<workflows, turn, other, turnNo, sessMsgs, sessHist, tasks, defaultSchema, sm,
                now, envEvents, lastCkpt, call>>

\* caller c calls a store method: if (!this.db) await this.initialize().
\* Without handle initialize() runs to its first await: this.db holds the new
\* connection and the first CREATE TABLE is issued. With a handle the method
\* goes on at once
StartOperation(c, method) ==
    /\ ops.op[c].pc = "idle"
    /\ IF db = "null"
       THEN /\ db' = "uninitialized"
            /\ connections' = connections + 1
            /\ ops' = [ops EXCEPT !.init = Tables[1],
                                  !.op[c] = [IdleOperation EXCEPT !.pc = "initializing",
                                                                  !.op = method]]
       ELSE /\ ops' = [ops EXCEPT !.op[c] = PastGuard(method, db = "uninitialized")]
            /\ UNCHANGED <<db, connections>>
    /\ lazyUnchanged
    /\ UNCHANGED <<agent_memories, agent_messages, agent_schema, stateCache, rnd, nextObj, calls>>

\* the CREATE TABLE IF NOT EXISTS that initialize() awaits completes and the
\* next statement of initialize() is issued
CreateTable ==
    /\ \E i \in 1..Len(Tables) :
          /\ ops.init = Tables[i]
          /\ ops' = [ops EXCEPT !.init = AfterTable(i), !.created = @ \cup {Tables[i]}]
    /\ lazyUnchanged
    /\ UNCHANGED <<storeVars, rnd, nextObj, calls>>

\* _initializeDefaultSchema() completes and initialize() returns
CompleteInitialize ==
    /\ ops.init = "seed"
    /\ agent_schema' = InitializeDefaultSchema(agent_schema, {})
    /\ db' = "open"
    /\ ops' = [ops EXCEPT !.init = "done"]
    /\ lazyUnchanged
    /\ UNCHANGED <<connections, agent_memories, agent_messages, stateCache, rnd, nextObj, calls>>

\* the caller that awaited initialize() goes on to its statement
ResumeOperation(c) ==
    /\ ops.op[c].pc = "initializing"
    /\ ops.init = "done"
    /\ ops' = [ops EXCEPT !.op[c] = PastGuard(ops.op[c].op, FALSE)]
    /\ lazyUnchanged
    /\ UNCHANGED <<storeVars, rnd, nextObj, calls>>

\* the statement of caller c is executed: it fails with 'no such table' when
\* its table was not created yet; otherwise the method completes
ExecuteStatement(c) ==
    /\ ops.op[c].pc = "issued"
    /\ lazyUnchanged
    /\ UNCHANGED <<db, connections, agent_schema, calls>>
    /\ IF TableOf(ops.op[c].op) \notin ops.created
       THEN /\ ops' = [ops EXCEPT !.op[c].pc = "done", !.op[c].failed = TRUE]
            /\ UNCHANGED <<agent_memories, agent_messages, stateCache, rnd, nextObj>>
       ELSE /\ ops' = [ops EXCEPT !.op[c].pc = "done"]
            /\ CASE ops.op[c].op = "saveCheckpoint" ->
                      LET out == SaveCheckpoint("s1", KeyState("s1", Undefined), Null,
                                    LastSecond(agent_memories, "created_at") + 1)
                      IN /\ agent_memories' = out.memories
                         /\ stateCache' = out.cache
                         /\ rnd' = rnd + 1
                         /\ UNCHANGED <<agent_messages, nextObj>>
                 [] ops.op[c].op = "saveMessage" ->
                      /\ agent_messages' = SaveMessage("s1", "msg_" \o c, "user", "q",
                                               LastSecond(agent_messages, "timestamp") + 1)
                      /\ UNCHANGED <<agent_memories, stateCache, rnd, nextObj>>
                 [] OTHER ->
                      \E out \in LoadCheckpoint("s1", Null) :
                          /\ stateCache' = out.cache
                          /\ nextObj' = IF out.obj > nextObj THEN out.obj ELSE nextObj
                          /\ UNCHANGED <<agent_memories, agent_messages, rnd>>

\* await close() once the methods have returned: the tables stay in the file
CloseStore ==
    /\ calls < MaxCalls
    /\ db = "open"
    /\ \A c \in Callers : ops.op[c].pc = "done"
    /\ calls' = calls + 1
    /\ LET out == Close(db, stateCache)
       IN /\ db' = out.db
          /\ stateCache' = out.stateCache
          /\ connections' = connections - out.released
    /\ ops' = [NoOperations EXCEPT !.created = ops.created]
    /\ lazyUnchanged
    /\ UNCHANGED <<agent_memories, agent_messages, agent_schema, rnd, nextObj>>

LazyNext ==
    \/ \E c \in Callers, method \in StoreMethods : StartOperation(c, method)
    \/ CreateTable
    \/ CompleteInitialize
    \/ \E c \in Callers : ResumeOperation(c)
    \/ \E c \in Callers : ExecuteStatement(c)
    \/ CloseStore

LazySpec == Init /\ [][LazyNext]_vars


----------------------------------------------------------------------------
(* StateManagerService.updateState *)

\* a state object as updateState sees it: subject and name hold a string,
\* undefined, or are not a key of the object; messages holds an array, null,
\* or is not a key
Object(subject, name, kind, messages) ==
    [subject |-> subject, name |-> name, kind |-> kind,
     messages |-> IF kind = "array" THEN messages ELSE <<>>]

UserMessage(n, id) == [role |-> "user", content |-> UserText(n), id |-> id]

MessageLists ==
    {<<>>, <<UserMessage(1, "msg_1")>>, <<UserMessage(2, Undefined)>>,
     <<UserMessage(1, "msg_1"), UserMessage(2, "msg_2")>>}

\* the objects given to updateState as currentState and as updates
UpdateArguments ==
    {Object(subject, name, kind, messages) :
        subject \in {Absent, Undefined, "physics"}, name \in {Absent, "Erica"},
        kind \in {"absent", "null", "array"}, messages \in MessageLists}

\* JSON.parse(JSON.stringify(o)): a property that holds undefined is left out,
\* null and arrays are kept, the elements of an array being copied
DeepCopy(o) ==
    [subject |-> JsonValue(o.subject), name |-> JsonValue(o.name), kind |-> o.kind,
     messages |-> [i \in 1..Len(o.messages) |-> JsonMessage(o.messages[i])]]

\* a loop that replaces every key of updates, messages included
ApplyUpdatesReplace(target, updates) ==
    [subject |-> IF updates.subject = Absent THEN target.subject ELSE updates.subject,
     name |-> IF updates.name = Absent THEN target.name ELSE updates.name,
     kind |-> IF updates.kind = "absent" THEN target.kind ELSE updates.kind,
     messages |-> IF updates.kind = "absent" THEN target.messages ELSE updates.messages]

\* Object.keys(updates).forEach(...) applied to the object target
ApplyUpdates(target, updates) ==
    LET append == /\ updates.kind = "array"
                  /\ target.kind = "array"
    IN [subject |-> IF updates.subject = Absent THEN target.subject ELSE updates.subject,
        name |-> IF updates.name = Absent THEN target.name ELSE updates.name,
        kind |-> IF updates.kind = "absent" THEN target.kind ELSE updates.kind,
        messages |-> IF updates.kind = "absent" THEN target.messages
                     ELSE IF append THEN target.messages \o updates.messages
                     ELSE updates.messages]

\* an updateState that applies the updates to currentState itself
UpdateStateInPlace(currentState, updates) ==
    [result |-> ApplyUpdates(currentState, updates),
     currentState |-> ApplyUpdates(currentState, updates),
     updates |-> updates]

\* updateState(currentState, updates): what it returns and what the two
\* argument objects hold afterwards
UpdateState(currentState, updates) ==
    LET updatedState == DeepCopy(currentState)
    IN [result |-> ApplyUpdates(updatedState, updates),
        currentState |-> currentState,
        updates |-> updates]

managerUnchanged ==
    UNCHANGED <<storeVars, workflows, turn, other, turnNo, sessMsgs, sessHist, tasks,
                envVars, histVars, ops>>

\* stateManagerService.updateState(currentState, updates)
CallUpdateState(currentState, updates) ==
    /\ sm.op = "none"
    /\ LET out == UpdateState(currentState, updates)
       IN sm' = [op |-> "update", currentState |-> currentState, updates |-> updates,
                 result |-> out.result, currentAfter |-> out.currentState,
                 updatesAfter |-> out.updates, again |-> FALSE, second |-> out.result]
    /\ managerUnchanged
    /\ UNCHANGED defaultSchema

\* the same call once more, with the two objects as the first call left them
CallUpdateStateAgain ==
    /\ sm.op = "update" /\ ~sm.again
    /\ LET out == UpdateState(sm.currentAfter, sm.updatesAfter)
       IN sm' = [sm EXCEPT !.again = TRUE, !.second = out.result,
                           !.currentAfter = out.currentState,
                           !.updatesAfter = out.updates]
    /\ managerUnchanged
    /\ UNCHANGED defaultSchema

UpdateNext ==
    \/ \E currentState \in UpdateArguments, updates \in UpdateArguments :
          CallUpdateState(currentState, updates)
    \/ CallUpdateStateAgain

UpdateSpec == Init /\ [][UpdateNext]_vars

\* overlapping turns of sessions that were not created through
\* initializeSessionState
LiveNext ==
    \/ \E sid \in Sessions : StartRequest(sid)
    \/ TurnLoad
    \/ TurnSaveUser
    \/ TurnStart
    \/ TurnAgent
    \/ TurnMemorySaveMessage
    \/ TurnMemorySaveCheckpoint
    \/ TurnEnd
    \/ Switch

\* the next step of the running call
TurnStep ==
    \/ TurnLoad
    \/ TurnSaveUser
    \/ TurnStart
    \/ TurnAgent
    \/ TurnMemorySaveMessage
    \/ TurnMemorySaveCheckpoint
    \/ TurnEnd

\* every store call and every generator call returns or fails, and the event
\* loop resumes the call that awaited it: a step of a call that is possible
\* again and again is taken
LiveSpec ==
    /\ Init /\ [][LiveNext]_vars
    /\ SF_vars(TurnStep)
    /\ WF_vars(Switch)


----------------------------------------------------------------------------
(* C1: a loadCheckpoint(sessionId, c) that directly follows the saveCheckpoint
   of state s for sessionId which returned c returns a state equal to s. *)
C1_RoundTrip ==
    (call.op = "load" /\ ~call.threw /\ call.afterSave) => call.state = call.saved

\* such a load of a state that has a property holding undefined, saved under a
\* generated id
C1_Witness ==
    /\ call.op = "load" /\ ~call.threw /\ call.afterSave
    /\ call.state.checkpointId = Undefined
    /\ call.arg \notin CheckpointArgs

(* C2: loadCheckpoint(sessionId) without a checkpoint id returns the state of
   the checkpoint of that session that was created most recently. *)
C2_LatestIsMostRecent ==
    (call.op = "load" /\ ~call.threw /\ call.arg = Null /\ lastCkpt[call.sid] # NullState)
    => Stringify(call.state) = Stringify(lastCkpt[call.sid])

\* a turn in which execute(state, input) was called
Executed == turn.stages # <<>> \/ turn.thrown = "start"

(* C3: state.messages of a session at a later point has the sequence at every
   earlier point as a prefix, across the stages of a turn and across
   successive turns; stated for the steps of runs in which no call fails and
   no two clock reads coincide. *)
C3_AppendOnly ==
    [][envEvents' = 0 => \A s \in Sessions :
            sessHist[s].created => IsPrefix(sessMsgs[s], sessMsgs'[s])]_vars

(* C4: the second turn of a session whose first turn completed and persisted a
   checkpoint, with no history supplied, starts from a state whose messages
   hold the user and the assistant message of the first turn; stated for runs
   in which no call fails and no two clock reads coincide. *)
C4_SecondTurnLoadsFirst ==
    (/\ turn.pc \notin {"idle", "load"}
     /\ turn.thrown # "history"
     /\ sessHist[turn.sid].turns = 2
     /\ sessHist[turn.sid].first # turn.n
     /\ sessHist[turn.sid].persisted
     /\ envEvents = 0)
    => /\ turn.fromCheckpoint
       /\ Len(turn.initial.messages) >= 2
       /\ \E i, j \in DOMAIN turn.initial.messages :
             /\ i < j
             /\ turn.initial.messages[i].role = "user"
             /\ turn.initial.messages[i].content = UserText(sessHist[turn.sid].first)
             /\ turn.initial.messages[j].role = "assistant"
             /\ turn.initial.messages[j].content = sessHist[turn.sid].response

(* C5: when a stage throws, execute returns a Result with an error field and
   the fixed apology text, its agentState taken from the state given to
   execute; and no turn ends with an exception instead of a Result. *)
C5_NoEscape ==
    /\ turn.thrown = "start" =>
          /\ turn.pc = "done"
          /\ turn.result.content = ExecuteApology
          /\ turn.result.error # Absent
          /\ turn.result.subject = Read(turn.state.subject)
          /\ turn.result.name = Read(turn.state.name)
    /\ turn.pc = "done" => (turn.result # NoResult /\ ~IsThrown(turn.result))

\* a turn whose start stage threw, after the user message was appended
C5_Witness ==
    /\ turn.pc = "done" /\ turn.thrown = "start"
    /\ turn.result.error = "TypeError"
    /\ Len(turn.state.messages) = 1

(* C6, as claimed: a turn in which every call of the generator failed returns a
   Result whose content is the fixed fallback string and that has no error
   field. *)
C6_Original ==
    (turn.pc = "done" /\ turn.generator # "returned")
    => (turn.result.content = AgentFallback /\ turn.result.error = Absent)

(* C6, amended: a turn in which the agent stage called the generator and the
   call failed returns a Result whose content is the fixed fallback string and
   that has no error field. *)
C6_GeneratorFallback ==
    (turn.pc = "done" /\ turn.generator = "threw")
    => (turn.result.content = AgentFallback /\ turn.result.error = Absent)

C6_Witness ==
    /\ turn.pc = "done" /\ turn.generator = "threw"
    /\ turn.stages = AllStages
    /\ turn.result.checkpointId # Absent

(* C7: a turn whose loadCheckpoint failed goes on with the fresh state built
   from the session descriptor, and a turn whose loadCheckpoint or whose
   saveMessage of the user message failed still calls execute and returns a
   Result. *)
C7_FailureDoesNotAbort ==
    /\ turn.loadFailed =>
          /\ turn.pc # "load"
          /\ ~turn.fromCheckpoint
          /\ turn.initial = [EmptyState EXCEPT
                                !.subject = OrElse(turn.subject, "various subjects"),
                                !.name = OrElse(turn.name, "AI Tutor"),
                                !.sessionId = turn.sid]
    /\ (/\ turn.pc = "done"
        /\ turn.thrown # "history"
        /\ turn.loadFailed \/ ~turn.userSaved)
       => (Executed /\ turn.result # NoResult /\ ~IsThrown(turn.result))

\* a turn that ran all stages after its loadCheckpoint failed, in a session
\* that has a checkpoint
C7_Witness ==
    /\ turn.pc = "done" /\ turn.loadFailed /\ turn.hadCheckpoint
    /\ turn.stages = AllStages
    /\ turn.result.error = Absent

(* C8: once saveMessage has written the user message of a turn, the message
   log of the session holds that user message at every later point of the
   turn. *)
C8_UserMessageLogged ==
    turn.userSaved =>
        \E i \in DOMAIN agent_messages :
            /\ agent_messages[i].session_id = turn.sid
            /\ agent_messages[i].role = "user"
            /\ agent_messages[i].content = UserText(turn.n)

(* C9, as claimed: every turn that called execute ran the four stages start,
   agent, memory, end, in this order, each once and none skipped. *)
C9_Original ==
    (turn.pc = "done" /\ Executed) => turn.stages = AllStages

(* C9, amended: the stages that completed are always a prefix of start, agent,
   memory, end, each stage begins when exactly the stages before it have
   completed, and a turn in which no stage threw ends with all four
   completed; when a stage throws the stages after it do not run. *)
C9_StageOrder ==
    /\ IsPrefix(turn.stages, AllStages)
    /\ turn.pc = "agent" => turn.stages = SubSeq(AllStages, 1, 1)
    /\ turn.pc \in {"memory", "memoryCheckpoint"} => turn.stages = SubSeq(AllStages, 1, 2)
    /\ turn.pc = "end" => turn.stages = SubSeq(AllStages, 1, 3)
    /\ (turn.pc = "done" /\ Executed /\ turn.thrown = "none") => turn.stages = AllStages
    /\ turn.thrown = "start" => (turn.pc = "done" /\ turn.stages = <<>>)

\* a turn that started from a checkpoint and ran all four stages
C9_Witness ==
    /\ turn.pc = "done" /\ turn.fromCheckpoint
    /\ turn.stages = AllStages

(* C10: a turn of a session that had no checkpoint returns a Result whose
   agentState.subject is the subject of the session descriptor, or "various
   subjects" when the descriptor has none. *)
C10_FreshSubject ==
    (turn.pc = "done" /\ ~turn.hadCheckpoint)
    => turn.result.subject =
          (IF turn.subject = Absent THEN "various subjects" ELSE turn.subject)

\* such a turn for a descriptor without subject, all stages run
C10_Witness ==
    /\ turn.pc = "done" /\ ~turn.hadCheckpoint
    /\ turn.subject = Absent
    /\ turn.stages = AllStages
    /\ turn.result.subject = "various subjects"

(* C11, as claimed: the agentState returned by a turn of a session that had a
   checkpoint carries the subject and the name of the session's checkpoints,
   whatever the descriptor of the turn holds. *)
C11_Original ==
    (turn.pc = "done" /\ turn.hadCheckpoint /\ lastCkpt[turn.sid] # NullState)
    => /\ turn.result.subject = Read(lastCkpt[turn.sid].subject)
       /\ turn.result.name = Read(lastCkpt[turn.sid].name)

(* C11, amended: in a turn that starts from a loaded checkpoint, the state of
   every stage, the checkpoint the turn persists and the returned agentState
   carry subject, name and sessionId of the loaded checkpoint, whatever the
   descriptor of the turn holds. *)
C11_FixedFromCheckpoint ==
    turn.fromCheckpoint =>
        /\ turn.state.subject = turn.initial.subject
        /\ turn.state.name = turn.initial.name
        /\ turn.state.sessionId = turn.initial.sessionId
        /\ turn.initial.sessionId = turn.sid
        /\ turn.state.checkpointId # Absent =>
              /\ lastCkpt[turn.sid].subject = turn.initial.subject
              /\ lastCkpt[turn.sid].name = turn.initial.name
              /\ lastCkpt[turn.sid].sessionId = turn.initial.sessionId
        /\ turn.pc = "done" =>
              /\ turn.result.subject = Read(turn.initial.subject)
              /\ turn.result.name = Read(turn.initial.name)

\* a turn from a checkpoint on physics whose descriptor has no subject, and
\* that persisted a checkpoint
C11_Witness ==
    /\ turn.pc = "done" /\ turn.fromCheckpoint
    /\ turn.subject = Absent
    /\ turn.result.subject = "physics"
    /\ turn.result.checkpointId # Absent

\* the rows of a table other than the row of a message id of a session
OtherRows(rows, sid, messageId) ==
    LET Other(r) == ~(r.session_id = sid /\ r.message_id = messageId)
    IN SelectSeq(rows, Other)

(* C12: after a saveMessage for (sessionId, messageId) the message log holds
   exactly one row for that key, its content is the content of this call also
   when the key had a row with another content, and the rows of other keys
   are unchanged. *)
C12_SaveMessageIdempotent ==
    [][(call'.op = "saveMessage" /\ ~call'.threw) =>
          /\ Cardinality({i \in RowsOf(agent_messages', call'.sid) :
                            agent_messages'[i].message_id = call'.arg}) = 1
          /\ ContentOf(agent_messages', call'.sid, call'.arg) = call'.content
          /\ OtherRows(agent_messages', call'.sid, call'.arg)
                = OtherRows(agent_messages, call'.sid, call'.arg)]_vars

\* a second saveMessage for a key, with another content, in a log that holds
\* a row of another key
C12_Witness ==
    /\ call.op = "saveMessage" /\ ~call.threw
    /\ call.replaced \notin {Null, call.content}
    /\ Len(agent_messages) = 2

(* C13: getMessages(sessionId, limit) returns only messages of that session,
   each of them at most once, at most limit of them, in non-decreasing
   timestamp order. *)
C13_GetMessagesOrdered ==
    (call.op = "getMessages" /\ ~call.threw) =>
        /\ Len(call.rows) <= call.limit
        /\ \A j \in DOMAIN call.rows :
              \E i \in RowsOf(agent_messages, call.sid) :
                 /\ agent_messages[i].message_id = call.rows[j].id
                 /\ agent_messages[i].content = call.rows[j].content
                 /\ agent_messages[i].timestamp = call.rows[j].timestamp
        /\ \A a, b \in DOMAIN call.rows :
              a < b => /\ call.rows[a].timestamp <= call.rows[b].timestamp
                       /\ call.rows[a].id # call.rows[b].id

\* a getMessages with limit 1 for a session with two messages
C13_Witness ==
    /\ call.op = "getMessages" /\ ~call.threw
    /\ call.limit = 1 /\ Len(call.rows) = 1
    /\ Cardinality(RowsOf(agent_messages, call.sid)) = 2

(* C14: a loadCheckpoint that raises no error returns null when the session
   has no checkpoint, or none with the requested id. *)
C14_NullWhenNone ==
    (call.op = "load" /\ ~call.threw /\ MatchingRows(call.sid, call.arg) = {})
    => call.state = NullState

(* C15: every caller that is in flight since its getOrCreateWorkflow(id), with
   no endSession(id) in between, holds the workflow that the registry holds
   for id, so callers of one id hold the same instance and no created entry
   is lost; the registry holds different workflows for different ids. *)
C15_WorkflowMemoized ==
    /\ \A t \in Tasks :
          (tasks[t].pc = "running" /\ tasks[t].current) =>
              /\ tasks[t].sid \in DOMAIN workflows
              /\ workflows[tasks[t].sid] = tasks[t].wf
    /\ \A a, b \in DOMAIN workflows : a # b => workflows[a] # workflows[b]

\* two callers in flight for session s1 at the same time, an endSession having run
C15_Witness ==
    /\ \A t \in Tasks : tasks[t].pc = "running" /\ tasks[t].current /\ tasks[t].sid = "s1"
    /\ calls > 0

(* C16: a step that removes the workflow of a session leaves the checkpoint
   rows, the message rows, the cache and the workflows of other sessions
   unchanged; and a turn of a session that has checkpoints, started after the
   workflow of the session was removed, starts from a loaded checkpoint of
   that session unless its loadCheckpoint fails. *)
C16_EndSessionFrame ==
    /\ [][\A s \in DOMAIN workflows :
            s \notin DOMAIN workflows' =>
               /\ agent_memories' = agent_memories
               /\ agent_messages' = agent_messages
               /\ stateCache' = stateCache
               /\ \A o \in DOMAIN workflows \ {s} :
                     o \in DOMAIN workflows' /\ workflows'[o] = workflows[o]]_vars
    /\ [](/\ turn.evicted
          /\ turn.hadCheckpoint
          /\ ~turn.loadFailed
          /\ turn.pc \notin {"idle", "load"}
          /\ turn.thrown # "history"
          => /\ turn.fromCheckpoint
             /\ turn.initial.sessionId = turn.sid)

\* a turn after endSession that started from the messages of the turn before
C16_Witness ==
    /\ turn.pc = "done" /\ turn.evicted /\ turn.fromCheckpoint
    /\ Len(turn.initial.messages) >= 2
    /\ Cardinality(DOMAIN workflows) = 1

(* C17: a turn whose memory stage failed to save the assistant message or the
   checkpoint returns the response of its agent stage as content, without an
   error field and without a checkpointId. *)
C17_MemoryFailureAbsorbed ==
    (turn.pc = "done" /\ turn.memoryError)
    => /\ turn.stages = AllStages
       /\ turn.result.content =
             (IF turn.generator = "returned" THEN Answer(UserText(turn.n))
              ELSE AgentFallback)
       /\ turn.result.error = Absent
       /\ turn.result.checkpointId \in {Absent, Undefined}

\* the checkpoint save of a second turn failed after its message was saved
C17_Witness ==
    /\ turn.pc = "done" /\ turn.memoryError
    /\ turn.fromCheckpoint /\ turn.assistantMsgId # Null
    /\ turn.result.content = Answer(UserText(turn.n))

CheckpointIdSet == turn.result.checkpointId \notin {Absent, Undefined}

\* the states loadCheckpoint(sessionId, checkpointId) may return, with the cache
\* as it is and with an empty cache
LoadedById(sessionId, checkpointId) ==
    {r.val : r \in LoadCheckpoint(sessionId, checkpointId)}
        \cup (IF MatchingRows(sessionId, checkpointId) = {} THEN {NullState}
              ELSE {Parse(agent_memories[i].state_data) :
                        i \in MatchingRows(sessionId, checkpointId)})

(* C18: the Result of a turn has a checkpointId exactly when the memory stage of
   the turn saved the assistant message and the checkpoint; the table then holds
   a row of the session with this id whose state ends with the assistant message
   of the turn, and loadCheckpoint(sessionId, id) returns, from the cache or
   from the row, a state of the session whose subject is the Result's. *)
C18_CheckpointIdIffPersisted ==
    turn.pc = "done" =>
       /\ CheckpointIdSet <=> (turn.stages = AllStages /\ ~turn.memoryError)
       /\ CheckpointIdSet =>
             /\ \E i \in MatchingRows(turn.sid, turn.result.checkpointId) :
                   LET messages == agent_memories[i].state_data.messages
                   IN /\ messages # <<>>
                      /\ messages[Len(messages)].id = turn.assistantMsgId
                      /\ messages[Len(messages)].role = "assistant"
             /\ \A loaded \in LoadedById(turn.sid, turn.result.checkpointId) :
                   /\ loaded # NullState
                   /\ loaded.sessionId = turn.sid
                   /\ Read(loaded.subject) = turn.result.subject

\* a second turn of a session, started from a loaded checkpoint, that persisted
\* its own checkpoint
C18_Witness ==
    /\ turn.pc = "done" /\ CheckpointIdSet /\ turn.fromCheckpoint
    /\ Cardinality(MatchingRows(turn.sid, turn.result.checkpointId)) = 1
    /\ Cardinality(RowsOf(agent_memories, turn.sid)) >= 2

(* C19: a saveCheckpoint without id adds a row to agent_memories: the key
   (sessionId, generated id) is the key of no row written before, in this
   process or in one before a restart. *)
C19_GeneratedIdsUnique ==
    [][(call'.op = "save" /\ calls' = calls + 1)
          => Len(agent_memories') = Len(agent_memories) + 1]_vars

(* C20: the id given to the assistant message of a turn differs from the id
   given to its user message, and a saveMessage of the engine adds a row to
   agent_messages without replacing one. *)
C20_MessageIdsDistinct ==
    /\ [](turn.assistantMsgId # Null => turn.assistantMsgId # turn.userMsgId)
    /\ [][agent_messages' # agent_messages
             => Len(agent_messages') = Len(agent_messages) + 1]_vars

\* what the store and the registry hold for a session: its rows in both
\* tables, its cache entries and its workflow
SessionView(memories, messages, cache, registry, s) ==
    LET Mine(r) == r.session_id = s
        keys == {CacheKey(s, "latest")}
                   \cup {CacheKey(s, memories[i].checkpoint_id) : i \in DOMAIN memories}
    IN [memories |-> SelectSeq(memories, Mine),
        messages |-> SelectSeq(messages, Mine),
        cache |-> [k \in keys \cap DOMAIN cache |-> cache[k]],
        workflow |-> IF s \in DOMAIN registry THEN registry[s] ELSE 0]

\* the Result of the only turn of its session is the one its own inputs and
\* its own failures give
SoloResult(t) ==
    /\ t.fromCheckpoint <=> (t.hadCheckpoint /\ ~t.loadFailed)
    /\ t.initial.sessionId = t.sid
    /\ t.initial.messages = <<>>
    /\ t.result.subject = ProfileOf(t.sid).subject
    /\ t.result.name = IF t.fromCheckpoint THEN "AI Tutor" ELSE ProfileOf(t.sid).name
    /\ t.result.content =
          (IF t.generator = "returned" THEN Answer(UserText(t.n)) ELSE AgentFallback)
    /\ t.result.error = Absent
    /\ (t.result.checkpointId \notin {Absent, Undefined}) <=> ~t.memoryError

(* C21: a step of a turn leaves the rows, the cache entries and the workflow of
   every other session, and a suspended turn of another session, as they were;
   and the Result of a turn that is the only turn of its session is the one
   given by its own descriptor, its own session's checkpoint and its own
   failures, whatever turn of another session overlapped it. *)
C21_SessionsIndependent ==
    /\ [][turn' # turn =>
            /\ \A s \in Sessions \ {turn'.sid} :
                  SessionView(agent_memories', agent_messages', stateCache', workflows', s)
                     = SessionView(agent_memories, agent_messages, stateCache, workflows, s)
            /\ (other.sid # turn.sid /\ ~(turn' = other /\ other' = turn))
                  => other' = other]_vars
    /\ [](\A t \in {turn, other} :
             (t.pc = "done" /\ sessHist[t.sid].turns = 1) => SoloResult(t))

\* two turns of different sessions overlapped, both started from the initial
\* checkpoint of their session and both persisted their own
C21_Witness ==
    /\ turn.pc = "done" /\ other.pc = "done"
    /\ turn.sid # other.sid
    /\ turn.fromCheckpoint /\ other.fromCheckpoint
    /\ turn.result.checkpointId # Undefined /\ other.result.checkpointId # Undefined
    /\ Len(agent_messages) = 4

\* two turns of one session that overlapped have both finished
OverlappedSameSession ==
    /\ turn.pc = "done" /\ other.pc = "done"
    /\ turn.sid = other.sid

(* C22: when two overlapping turns of one session have finished and neither
   failed to persist, each has written a checkpoint row of its own, and
   loadCheckpoint(sessionId) returns the state of the checkpoint written
   last. *)
C22_LastWriteWins ==
    (OverlappedSameSession /\ ~turn.memoryError /\ ~other.memoryError)
    => /\ turn.result.checkpointId # other.result.checkpointId
       /\ MatchingRows(turn.sid, turn.result.checkpointId) # {}
       /\ MatchingRows(turn.sid, other.result.checkpointId) # {}
       /\ \A out \in LoadCheckpoint(turn.sid, Null) :
             Stringify(out.val) = Stringify(lastCkpt[turn.sid])

\* request n is in flight; request n has returned
Started(n) == \E t \in {turn, other} : t.n = n /\ InFlight(t)
Returned(n) == \E t \in {turn, other} : t.n = n /\ t.pc = "done" /\ t.result # NoResult

(* C29: every executeAgentFlow call that has started eventually returns a
   Result, whatever call of the same or of another session overlaps it. *)
C29_TurnsFinish ==
    \A n \in 1..Cardinality(Requests) : Started(n) ~> Returned(n)

\* both overlapping calls have returned, one of them after a failed store call
C29_Witness ==
    /\ Returned(1) /\ Returned(2)
    /\ envEvents > 0
    /\ \E t \in {turn, other} : t.memoryError \/ t.loadFailed \/ ~t.userSaved

(* C30: after saveCheckpoint(sessionId, state, c) returned, agent_memories holds
   exactly one row of key (sessionId, c), this row holds the JSON text of the
   state given to this call, and the cache entry of (sessionId, c) is that
   state, whether or not a checkpoint c of the session existed before. *)
C30_WriteThrough ==
    (call.op = "save" /\ ~call.threw)
    => /\ Cardinality(MatchingRows(call.sid, call.id)) = 1
       /\ \A i \in MatchingRows(call.sid, call.id) :
             agent_memories[i].state_data = Stringify(call.state)
       /\ CacheKey(call.sid, call.id) \in DOMAIN stateCache
       /\ stateCache[CacheKey(call.sid, call.id)].val = call.state

\* a save under an id of the session that held another state before
C30_Witness ==
    /\ call.op = "save" /\ ~call.threw /\ call.arg = "c1"
    /\ calls >= 2
    /\ lastCkpt[call.sid] = call.state
    /\ Len(agent_memories) = 1
    /\ stateCache[CacheKey(call.sid, "c1")].val.subject = "history"

\* the value read from a property, and the values read from a message
ReadMessage(m) == [role |-> Read(m.role), content |-> Read(m.content), id |-> Read(m.id)]
ReadMessages(messages) == [i \in 1..Len(messages) |-> ReadMessage(messages[i])]

(* C27: the state returned by updateState(current, updates) holds, as messages,
   the messages of current followed by those of updates when both hold an
   array, and otherwise the value of updates when messages is a key of updates;
   for every other key of updates the value of updates; and for every key that
   is not in updates the value read from current. *)
C27_UpdateStateMerges ==
    sm.op = "update" =>
       LET current == sm.currentState
           updates == sm.updates
           result == sm.result
       IN /\ (current.kind = "array" /\ updates.kind = "array")
                => /\ result.kind = "array"
                   /\ ReadMessages(result.messages)
                         = ReadMessages(current.messages) \o ReadMessages(updates.messages)
          /\ (updates.kind # "absent" /\ ~(current.kind = "array" /\ updates.kind = "array"))
                => (result.kind = updates.kind /\ result.messages = updates.messages)
          /\ updates.kind = "absent"
                => /\ result.kind = current.kind
                   /\ ReadMessages(result.messages) = ReadMessages(current.messages)
          /\ updates.subject # Absent => result.subject = updates.subject
          /\ updates.subject = Absent => Read(result.subject) = Read(current.subject)
          /\ updates.name # Absent => result.name = updates.name
          /\ updates.name = Absent => Read(result.name) = Read(current.name)

\* messages were appended to messages, a key was replaced and a key was kept
C27_Witness ==
    /\ sm.op = "update"
    /\ sm.currentState.kind = "array" /\ sm.updates.kind = "array"
    /\ Len(sm.currentState.messages) = 1 /\ Len(sm.updates.messages) = 2
    /\ Len(sm.result.messages) = 3
    /\ sm.currentState.subject = Undefined
    /\ sm.updates.subject = Absent /\ sm.updates.name = "Erica"
    /\ sm.currentState.name = Absent

(* C28: updateState leaves the objects given as current and as updates as they
   were, and the same call made again with them returns an equal state. *)
C28_UpdateStatePure ==
    sm.op = "update" =>
       /\ sm.currentAfter = sm.currentState
       /\ sm.updatesAfter = sm.updates
       /\ sm.second = sm.result

\* a second call after a first one that appended messages
C28_Witness ==
    /\ sm.op = "update" /\ sm.again
    /\ sm.currentState.kind = "array" /\ sm.updates.kind = "array"
    /\ sm.updates.messages # <<>>
    /\ Len(sm.second.messages) = Len(sm.currentState.messages) + Len(sm.updates.messages)

\* a step that is a call of initialize() which returned, made on a store whose
\* earlier initialization (explicit or lazy) completed
InitializeAgain ==
    /\ calls' = calls + 1
    /\ call'.op = "initialize"
    /\ ~call'.threw
    /\ db = "open"

\* C23: initialize() is idempotent: called on a store that is already
\* initialized it leaves the checkpoint rows, the message rows and the schema
\* rows unchanged (the default rows are seeded once, no row is overwritten)
C23_InitializeIdempotent ==
    [][InitializeAgain =>
          /\ agent_memories' = agent_memories
          /\ agent_messages' = agent_messages
          /\ agent_schema' = agent_schema]_vars

\* a step that is a call of close() made on a store that is closed
CloseAgain ==
    /\ calls' = calls + 1
    /\ call'.op = "close"
    /\ db = "null"

\* a step that is a call of close() which returned
CloseReturned ==
    /\ calls' = calls + 1
    /\ call'.op = "close"
    /\ ~call'.threw

\* C24: close() on a closed store succeeds and changes nothing; after a
\* close() that returned the cache is empty and the store holds no connection,
\* and the checkpoint rows and message rows are as they were
C24_CloseSafe ==
    [][/\ CloseAgain => (~call'.threw /\ UNCHANGED storeVars)
       /\ CloseReturned =>
            /\ stateCache' = ClearCache
            /\ db' = "null"
            /\ connections' = IF db = "null" THEN connections ELSE connections - 1
            /\ agent_memories' = agent_memories
            /\ agent_messages' = agent_messages]_vars

\* close() was called twice in a row on a store that held a checkpoint row and
\* a cache entry, and both calls returned
C24_Witness ==
    /\ call.op = "close"
    /\ call.handle = "null"
    /\ ~call.threw
    /\ calls = 3
    /\ db = "null"
    /\ connections = 0
    /\ stateCache = ClearCache
    /\ Len(agent_memories) = 1

\* C25: getDefaultSchema() never propagates a failure: when the schema cannot
\* be read, also because the store cannot be initialized, it returns the
\* fallback schema
C25_SchemaFailureAbsorbed ==
    call.op = "schema" =>
        /\ ~call.threw
        /\ call.failure # Null => call.schema = FallbackSchema

\* C26: getState() of a new state manager holds, for every key, the value of
\* the source of highest precedence that defines it: initialState over the
\* schema of the store (when it was obtained) over the compile-time default
C26_Precedence ==
    sm.op = "create" =>
        sm.state = Spread(Spread(CompileTimeSchema, sm.dbSchema), sm.initialState)

\* what loadCheckpoint(sessionId, checkpointId) returns of the table alone, as
\* after clearCache(): the JSON form of the row found, or null
UncachedLoad(sessionId, checkpointId) ==
    IF MatchingRows(sessionId, checkpointId) = {} THEN {NullState}
    ELSE {agent_memories[i].state_data : i \in MatchingRows(sessionId, checkpointId)}

\* C31: the cache is transparent for loads by explicit id: the state that
\* loadCheckpoint(sessionId, c) returns is, in its JSON form, the state it
\* returns when the cache was cleared immediately before
C31_CacheTransparent ==
    (call.op = "load" /\ ~call.threw /\ call.arg # Null) =>
        IF call.state = NullState THEN NullState \in UncachedLoad(call.sid, call.arg)
        ELSE Stringify(call.state) \in UncachedLoad(call.sid, call.arg)

\* C32: a result 'not found' is not cached: when loadCheckpoint(sessionId)
\* returned null and a checkpoint was then saved for the session, the
\* loadCheckpoint(sessionId) that follows returns the saved state, not null
C32_NotFoundNotCached ==
    (call.op = "load" /\ ~call.threw /\ call.notFound) =>
        /\ call.state # NullState
        /\ Stringify(call.state) = Stringify(call.saved)

\* loadCheckpoint(sessionId) returned null, a checkpoint was saved under a
\* generated id, and loadCheckpoint(sessionId) returned
C32_Witness ==
    /\ call.op = "load" /\ ~call.threw /\ call.notFound
    /\ calls = 3
    /\ call.state # NullState
    /\ \E i \in DOMAIN agent_memories : agent_memories[i].checkpoint_id \notin CheckpointArgs

\* C33: when the write of saveCheckpoint fails, the call throws and leaves the
\* cache and the checkpoint rows as they were
C33_FailedSaveLeavesStore ==
    [][(calls' = calls + 1 /\ call'.op = "save" /\ call'.failure = "insert") =>
          /\ call'.threw
          /\ stateCache' = stateCache
          /\ agent_memories' = agent_memories]_vars

\* a saveCheckpoint whose write failed, on a store that holds a row and a
\* cache entry of an earlier saveCheckpoint
C33_Witness ==
    /\ call.op = "save" /\ call.threw /\ call.failure = "insert"
    /\ Len(agent_memories) = 1
    /\ DOMAIN stateCache # {}

\* the JSON forms of the states loadCheckpoint(sessionId, checkpointId) may
\* return, with the cache as it is
LoadedJson(sessionId, checkpointId) ==
    {IF r.val = NullState THEN NullState ELSE Stringify(r.val) :
        r \in LoadCheckpoint(sessionId, checkpointId)}

\* the step in which the memory stage of the running turn saved its checkpoint
CheckpointSaved ==
    /\ turn.pc = "memoryCheckpoint"
    /\ turn'.pc # "memoryCheckpoint"
    /\ ~turn'.memoryError

\* C34: a checkpoint is immutable: no step of a turn of any session, no
\* endSession, clearCache or close changes the state that loadCheckpoint(s, c)
\* returns for a row (s, c) of the table; and a turn adds one row to the table,
\* a new checkpoint of its session, when it succeeds, and none otherwise
C34_CheckpointImmutable ==
    [][/\ \A i \in DOMAIN agent_memories :
             LET s == agent_memories[i].session_id
                 c == agent_memories[i].checkpoint_id
             IN LoadedJson(s, c)' = LoadedJson(s, c)
       /\ CheckpointSaved =>
             /\ Len(agent_memories') = Len(agent_memories) + 1
             /\ SubSeq(agent_memories', 1, Len(agent_memories)) = agent_memories
             /\ LET row == agent_memories'[Len(agent_memories')]
                IN /\ row.session_id = turn.sid
                   /\ row.checkpoint_id = turn'.state.checkpointId
                   /\ MatchingRows(row.session_id, row.checkpoint_id) = {}
       /\ (InFlight(turn) /\ ~CheckpointSaved) => agent_memories' = agent_memories]_vars

\* the second turn of a session has persisted its checkpoint after a close()
\* between the turns, and the checkpoint of the first turn is still a row
C34_Witness ==
    /\ turn.pc = "done"
    /\ CheckpointIdSet
    /\ sessHist[turn.sid].turns = 2
    /\ call.op = "close" /\ ~call.threw
    /\ Cardinality(RowsOf(agent_memories, turn.sid)) >= 2

\* C35: the compile-time defaultSchema is constant: getState() of a new state
\* manager holds, for every key that is not in its own initial state, the
\* default of the store schema or of the schema the constructor built, whatever
\* createStateManager and setState calls were made before
C35_DefaultSchemaConstant ==
    sm.op = "create" =>
        \A k \in DOMAIN sm.state \ DOMAIN sm.initialState :
            /\ k \in DOMAIN CompileTimeSchema \cup DOMAIN sm.dbSchema
            /\ sm.state[k] = IF k \in DOMAIN sm.dbSchema THEN sm.dbSchema[k]
                             ELSE CompileTimeSchema[k]

\* C36: store lookups are isolated by session: a state that loadCheckpoint(A, c)
\* or loadCheckpoint(A) returns was saved under session A and, when c is
\* given, under the id c, also for ids that contain ':' and for the id 'latest'
C36_SessionIsolation ==
    (call.op = "load" /\ ~call.threw /\ call.state # NullState) =>
        /\ call.state.sessionId = call.sid
        /\ call.arg # Null => call.state.checkpointId = call.arg

\* the messages of the row that holds the checkpoint named in the Result
ResultCheckpoints ==
    {agent_memories[i].state_data.messages :
        i \in MatchingRows(turn.sid, turn.result.checkpointId)}

\* the last message is an assistant message with the content of the Result
EndsWithResult(messages) ==
    /\ messages # <<>>
    /\ messages[Len(messages)].role = "assistant"
    /\ messages[Len(messages)].content = turn.result.content

\* the message before the last is the user message of the running turn
PrecededByUser(messages) ==
    /\ Len(messages) >= 2
    /\ messages[Len(messages) - 1].role = "user"
    /\ messages[Len(messages) - 1].content = UserText(turn.n)

\* C37 as stated: whenever a turn returns a Result with a checkpointId, the
\* last message of that checkpoint is an assistant message with the content of
\* the Result and the message before it is the user message of this turn
C37_Original ==
    (turn.pc = "done" /\ CheckpointIdSet) =>
        /\ ResultCheckpoints # {}
        /\ \A messages \in ResultCheckpoints :
              EndsWithResult(messages) /\ PrecededByUser(messages)

\* C37: whenever a turn returns a Result with a checkpointId, the last message
\* of that checkpoint is an assistant message with the content of the Result;
\* the message before it is the user message of this turn exactly when the
\* saveMessage of the user message succeeded
C37_ResultAgreesWithCheckpoint ==
    (turn.pc = "done" /\ CheckpointIdSet) =>
        /\ ResultCheckpoints # {}
        /\ \A messages \in ResultCheckpoints :
              /\ EndsWithResult(messages)
              /\ PrecededByUser(messages) <=> turn.userSaved

\* a turn started from a loaded checkpoint whose user message was saved and
\* which persisted its checkpoint
C37_Witness ==
    /\ turn.pc = "done" /\ CheckpointIdSet
    /\ turn.userSaved /\ turn.fromCheckpoint
    /\ \E messages \in ResultCheckpoints : PrecededByUser(messages)

\* the states from which a call without message history starts the pipeline
\* when its loadCheckpoint ends as the one of this step
StatesWithoutPrior ==
    IF turn'.loadFailed
    THEN {FreshState(turn.sid, turn.subject, turn.name, <<>>)}
    ELSE {IF out.val = NullState THEN FreshState(turn.sid, turn.subject, turn.name, <<>>)
          ELSE out.val : out \in LoadCheckpoint(turn.sid, Null)}

\* the messages a turn persists when it started from the state initial: the
\* messages of that state, its user message when it was saved, and the answer
MessagesPersisted(t) ==
    t.initial.messages
        \o (IF t.userSaved
            THEN <<[role |-> "user", content |-> UserText(t.n), id |-> t.userMsgId]>>
            ELSE <<>>)
        \o <<[role |-> "assistant", content |-> t.result.content, id |-> t.assistantMsgId]>>

\* C38 as stated: when a checkpoint exists for the session, the turn starts
\* the pipeline, and from the state a call without prior messages starts from
C38_Original ==
    /\ [](turn.hadCheckpoint => turn.thrown # "history")
    /\ [][(turn.pc = "load" /\ turn'.pc # "load" /\ turn.hadCheckpoint)
            => turn'.state \in StatesWithoutPrior]_vars

\* C38: when loadCheckpoint returned a checkpoint of the session, the turn
\* starts the pipeline from the state a call without prior messages starts
\* from, and the checkpoint it persists holds the messages of that state
\* followed by the messages of this turn, whatever the prior messages were
C38_PriorMessagesUnused ==
    /\ []((turn.pc = "done" /\ turn.fromCheckpoint /\ CheckpointIdSet) =>
             \A messages \in ResultCheckpoints : messages = MessagesPersisted(turn))
    /\ [][(turn.pc = "load" /\ turn'.fromCheckpoint)
            => turn'.state \in StatesWithoutPrior]_vars

C38_Witness ==
    /\ turn.pc = "done" /\ turn.fromCheckpoint /\ CheckpointIdSet
    /\ turn.history # <<>>
    /\ ResultCheckpoints # {}

\* C39: no store method issues its statement while the initialize() that
\* creates the tables is under way, and once the methods have returned the
\* store holds a single open connection
C39_LazyInitializeSafe ==
    /\ \A c \in Callers : ~ops.op[c].early
    /\ (\A c \in Callers : ops.op[c].pc = "done") => connections = 1

\* the places of the request of the running turn that hold its user text
UserTextInRequest ==
    {i \in 1..Len(turn.request) :
        turn.request[i].role = "user" /\ turn.request[i].content = UserText(turn.n)}

\* C40: the history the agent stage passes to the generator is the system
\* prompt followed by state.messages in their order, and the request the
\* generator builds of it holds the user text of the turn exactly once
C40_RequestHoldsUserTextOnce ==
    /\ (turn.generator # "none" /\ turn.stages[Len(turn.stages)] = "agent") =>
          /\ Len(turn.formattedHistory) = Len(sessMsgs[turn.sid]) + 1
          /\ turn.formattedHistory[1] =
                [role |-> "system", content |-> turn.state.systemPrompt]
          /\ \A i \in 1..Len(sessMsgs[turn.sid]) :
                turn.formattedHistory[i + 1] = sessMsgs[turn.sid][i]
    /\ turn.generator # "none" => Cardinality(UserTextInRequest) = 1
====
